---- MODULE Spec2Model ----
(***************************************************************************)
(* Model of the ODIN mobility ETL pipeline: ETLPipeline (src/etl.py), the  *)
(* dimension and fact transformers (src/transformer.py), the validator     *)
(* (src/validator.py) and the UPSERT loaders (src/loader.py) writing to a  *)
(* relational store through one transaction per table.                    *)
(*                                                                         *)
(* Text is a sequence of one-character strings, so that trimming, joining  *)
(* and comparing behave as they do on Python strings.  NULL is Python's    *)
(* None / SQL NULL, NaN is the pandas missing value.                       *)
(***************************************************************************)
EXTENDS Integers, Sequences, FiniteSets, TLC

VARIABLES
    raw_dimensions,          \* ETLPipeline.raw_dimensions (ordered dict)
    raw_facts,               \* ETLPipeline.raw_facts (table or NULL)
    transformed_dimensions,  \* ETLPipeline.transformed_dimensions (ordered dict)
    transformed_facts,       \* ETLPipeline.transformed_facts (table or NULL)
    store,                   \* committed content of the seven target tables
    open_txns,               \* transactions currently open on the store
    pc,                      \* position of the pipeline's thread of control
    load_i,                  \* index of the dimension DimensionsLoader.load is at
    dim_results,             \* DimensionsLoader.load's local `results`
    result,                  \* ETLResult returned by load(), or NULL
    caller,                  \* "none", "run" (inside run()) or "call" (one stage called directly)
    outcome,                 \* "none", "running", "returned" or "raised"
    failed_stage,            \* stage whose exception reached the caller, or "none"
    clock,                   \* value pd.Timestamp.now() returns next
    trace,                   \* stages entered since run() was last called (or since construction)
    run_store0,              \* the store when the current entry began
    txn_log,                 \* begin/commit/rollback events of the current load stage
    upsert_store0,           \* the store when the last table-level upsert began
    validated,               \* tables that last passed validate_all, or NULL
    prev_run,                \* summary of the entry before the current one
    fact_loads,              \* the last two committed fact loads
    failures,                \* store failures that have happened so far
    calls                    \* stages that have been called directly so far

\* a MetadataParser exercised on its own
VARIABLES
    document,                \* the metadata file as it was written, or no file
    separator,               \* MetadataParser._separator
    content,                 \* MetadataParser._content
    sections,                \* the local `sections` of MetadataParser.parse
    parse_i,                 \* the pass MetadataParser.parse's loop is at
    dataframes,              \* MetadataParser.dataframes (ordered dict)
    reported,                \* the sections whose parse error was printed
    parser_pc                \* "none", "new", "loop", "returned" or "raised"

\* a DimensionTransformer or FactTransformer exercised on its own
VARIABLES
    heap,                    \* the DataFrame objects there are, by reference
    caller_df,               \* the reference the caller passes to __init__
    passed,                  \* the caller's table as it was when it was passed
    self_df,                 \* the transformer's self.df (a reference)
    chain,                   \* the methods transform() has still to call
    transformer,             \* "none", "DimensionTransformer" or "FactTransformer"
    transform_clock,         \* the time pd.Timestamp.now reads
    transform_calls,         \* the calls of transform() that have returned
    transformer_pc           \* "none", "running", "returned" or "raised"

\* a DataValidator exercised on its own
VARIABLES
    self_dimensions,         \* DataValidator.dimensions (ordered dict)
    self_fact,               \* DataValidator.fact
    validator_method,        \* the method of DataValidator that was called
    validate_i,              \* the pass validate_dimensions' loop is at
    checked,                 \* the tables a schema was validated against, in order
    violations,              \* the errors raised, each with the table it is about
    validator_pc             \* "none", "new", "dimensions", "fact", "returned" or "raised"

\* ETLPipeline.extract followed through its parser and its DataSource
VARIABLES
    source_config,           \* ETLPipeline.source_config (SourceConfig)
    data_file,               \* the raw fact file as it was written, or no file
    read_sep                 \* the sep DataSource.read gave pd.read_csv, or NULL

pipeline_vars ==
    << raw_dimensions, raw_facts, transformed_dimensions, transformed_facts,
       store, open_txns, pc, load_i, dim_results, result, caller, outcome,
       failed_stage, clock, trace, run_store0, txn_log, upsert_store0,
       validated, prev_run, fact_loads, failures, calls >>

parser_vars ==
    << document, separator, content, sections, parse_i, dataframes, reported,
       parser_pc >>

transformer_vars ==
    << heap, caller_df, passed, self_df, chain, transformer, transform_clock,
       transform_calls, transformer_pc >>

validator_vars ==
    << self_dimensions, self_fact, validator_method, validate_i, checked,
       violations, validator_pc >>

source_vars == << source_config, data_file, read_sep >>

component_vars == << parser_vars, transformer_vars, validator_vars, source_vars >>

outside_parser == << pipeline_vars, transformer_vars, validator_vars, source_vars >>

outside_transformer == << pipeline_vars, parser_vars, validator_vars, source_vars >>

outside_validator == << pipeline_vars, parser_vars, transformer_vars, source_vars >>

vars == << pipeline_vars, component_vars >>

----------------------------------------------------------------------------
(* Bounds *)

\* pd.Timestamp.now() is read at most MaxClock times (one transform stage each)
MaxClock == 2

\* the store fails (connection, statement or commit) at most MaxFailures times
MaxFailures == 1

\* at most MaxCalls stages are called directly, outside run()
MaxCalls == 4

\* a transformer exercised on its own is used for at most MaxTransforms calls
MaxTransforms == 2

----------------------------------------------------------------------------
(* Values *)

NULL == << "NULL" >>
NaN == << "NaN" >>

Whitespace == { " " }

RECURSIVE LStrip(_)
LStrip(s) ==
    IF s # << >> /\ Head(s) \in Whitespace THEN LStrip(Tail(s)) ELSE s

RECURSIVE RStrip(_)
RStrip(s) ==
    IF s # << >> /\ s[Len(s)] \in Whitespace
    THEN RStrip(SubSeq(s, 1, Len(s) - 1))
    ELSE s

\* str.strip()
Strip(s) == RStrip(LStrip(s))

\* Series.astype(str) on one cell
AsStr(v) ==
    IF v = NaN THEN << "n", "a", "n" >>
    ELSE IF v = NULL THEN << "N", "o", "n", "e" >>
    ELSE v

\* "sep".join(parts)
RECURSIVE Join(_, _)
Join(sep, parts) ==
    IF parts = << >> THEN << >>
    ELSE IF Len(parts) = 1 THEN parts[1]
    ELSE parts[1] \o sep \o Join(sep, Tail(parts))

\* hashlib.md5(...).hexdigest(): a digest determined by the hashed string
\* (digest collisions are not modelled)
Md5(s) == << "md5" >> \o s

Range(f) == { f[i] : i \in DOMAIN f }

----------------------------------------------------------------------------
(* Ordered dicts: sequences of [name, df] in insertion order *)

DictNames(d) == { d[i].name : i \in DOMAIN d }

DictGet(d, n) == (CHOOSE i \in DOMAIN d : d[i].name = n)

DictValue(d, n) == d[DictGet(d, n)].df

\* d[n] = df: an existing name keeps its position, a new one is appended
DictSet(d, n, df) ==
    IF n \in DictNames(d)
    THEN [ i \in DOMAIN d |-> IF d[i].name = n THEN [ name |-> n, df |-> df ] ELSE d[i] ]
    ELSE Append(d, [ name |-> n, df |-> df ])

----------------------------------------------------------------------------
(* Program constants *)

\* ETLPipeline.DIMENSION_NAMES
DIMENSION_NAMES ==
    { "TravelMotives", "Population", "TravelModes", "Margins",
      "RegionCharacteristics", "Periods" }

\* DimensionsLoader.TABLE_MAPPING
TABLE_MAPPING ==
    [ Population |-> "dim_population",
      TravelMotives |-> "dim_travel_motives",
      TravelModes |-> "dim_travel_modes",
      Margins |-> "dim_margins",
      RegionCharacteristics |-> "dim_regions",
      Periods |-> "dim_periods" ]

\* DimensionsLoader.DIMENSION_COLUMNS
DIMENSION_COLUMNS == << "key", "title", "description", "ingested_at" >>

\* mutant: description is left out of the columns overwritten on conflict
DimensionUpdateNoDescription == << "title", "ingested_at" >>

\* update_columns of DimensionsLoader._upsert_table
DIMENSION_UPDATE_COLUMNS == << "title", "description", "ingested_at" >>

\* FactLoader.TABLE_NAME
TABLE_NAME == "fact_mobility"

\* FactTransformer.FK_COLUMNS
FK_COLUMNS ==
    << "travel_motive_key", "population_key", "travel_mode_key",
       "margin_key", "region_key", "period_key" >>

\* FactTransformer.METRIC_COLUMNS
METRIC_COLUMNS ==
    << "trips_daily", "distance_daily", "time_daily",
       "trips_yearly", "distance_yearly", "time_yearly" >>

\* FactLoader.FACT_COLUMNS
FACT_COLUMNS == << "fact_id" >> \o FK_COLUMNS \o METRIC_COLUMNS \o << "ingested_at" >>

\* mutant: every column but the conflict key is overwritten on conflict
FactUpdateAllColumns == FK_COLUMNS \o METRIC_COLUMNS \o << "ingested_at" >>

\* FactLoader.METRIC_COLUMNS: the columns overwritten on conflict
FACT_UPDATE_COLUMNS == METRIC_COLUMNS \o << "ingested_at" >>

\* DimensionTransformer.COLUMN_MAPPING
DIM_COLUMN_MAPPING ==
    [ Key |-> "key", Title |-> "title", Description |-> "description" ]

\* FactTransformer.COLUMN_MAPPING
FACT_COLUMN_MAPPING ==
    [ TravelMotives |-> "travel_motive_key",
      Population |-> "population_key",
      TravelModes |-> "travel_mode_key",
      Margins |-> "margin_key",
      RegionCharacteristics |-> "region_key",
      Periods |-> "period_key",
      Trips_1 |-> "trips_daily",
      DistanceTravelled_2 |-> "distance_daily",
      TimeTravelled_3 |-> "time_daily",
      Trips_4 |-> "trips_yearly",
      DistanceTravelled_5 |-> "distance_yearly",
      TimeTravelled_6 |-> "time_yearly" ]

\* the dimension whose key column each foreign key is checked against (fact_schema)
FK_DIMENSION ==
    [ travel_motive_key |-> "TravelMotives",
      population_key |-> "Population",
      travel_mode_key |-> "TravelModes",
      margin_key |-> "Margins",
      region_key |-> "RegionCharacteristics",
      period_key |-> "Periods" ]

DimTables == { TABLE_MAPPING[n] : n \in DOMAIN TABLE_MAPPING }

Tables == DimTables \cup { TABLE_NAME }

----------------------------------------------------------------------------
(* Transformers: a table is a sequence of rows, a row a record of cells *)

\* DataFrame.rename(columns=mapping) on one row
RenameRow(row, mapping) ==
    LET new(c) == IF c \in DOMAIN mapping THEN mapping[c] ELSE c
    IN  [ c \in { new(k) : k \in DOMAIN row } |->
            row[CHOOSE k \in DOMAIN row : new(k) = c] ]

\* mutant: the tokens 'nan' and 'None' are kept as text
CleanStringKeepsTokens(v) == Strip(AsStr(v))

\* DimensionTransformer.clean_strings on one cell
CleanString(v) ==
    LET s == Strip(AsStr(v))
    IN  IF s \in { << "n", "a", "n" >>, << "N", "o", "n", "e" >> } THEN NULL ELSE s

\* DimensionTransformer.clean_strings on one row
DimCleanStrings(row) ==
    [ c \in DOMAIN row |->
        IF c \in { "key", "title", "description" } THEN CleanString(row[c]) ELSE row[c] ]

\* DimensionTransformer.handle_nulls on one row
DimHandleNulls(row) ==
    [ c \in DOMAIN row |-> IF row[c] \in { << >>, << " " >> } THEN NULL ELSE row[c] ]

\* pd.Timestamp.now(tz="UTC") when the clock shows n
Timestamp(n) == << "ts", n >>

\* add_audit_columns on one row
AddAuditColumns(row, now) ==
    [ c \in DOMAIN row \cup { "ingested_at" } |->
        IF c = "ingested_at" THEN now ELSE row[c] ]

\* DimensionTransformer.transform
DimensionTransform(df, now) ==
    [ i \in DOMAIN df |->
        AddAuditColumns(DimHandleNulls(DimCleanStrings(RenameRow(df[i], DIM_COLUMN_MAPPING))), now) ]

Digits == { "0", "1", "2", "3", "4", "5", "6", "7", "8", "9" }

RECURSIVE StripZeros(_)
StripZeros(s) ==
    IF Len(s) > 1 /\ Head(s) = "0" THEN StripZeros(Tail(s)) ELSE s

\* to_numeric that leaves what it cannot parse as it is
ToNumericKeepText(v) ==
    IF v # << >> /\ v # NaN /\ v # NULL /\ \A i \in DOMAIN v : v[i] \in Digits
    THEN StripZeros(v)
    ELSE v

\* pd.to_numeric(errors="coerce") on one cell: a numeral becomes its number
\* (written canonically, without leading zeros), anything else is missing
ToNumeric(v) ==
    IF v # << >> /\ v # NaN /\ v # NULL /\ \A i \in DOMAIN v : v[i] \in Digits
    THEN StripZeros(v)
    ELSE NaN

\* cast_types that does not trim the foreign keys
CastTypesNoStrip(row) ==
    [ c \in DOMAIN row |->
        IF c \in Range(FK_COLUMNS) THEN AsStr(row[c])
        ELSE IF c \in Range(METRIC_COLUMNS) THEN ToNumeric(row[c])
        ELSE row[c] ]

\* FactTransformer.cast_types on one row
CastTypes(row) ==
    [ c \in DOMAIN row |->
        IF c \in Range(FK_COLUMNS) THEN Strip(AsStr(row[c]))
        ELSE IF c \in Range(METRIC_COLUMNS) THEN ToNumeric(row[c])
        ELSE row[c] ]

\* FactTransformer.handle_nulls, its first statement, on one row
ReplaceDot(row) ==
    [ c \in DOMAIN row |->
        IF c \in Range(METRIC_COLUMNS) /\ row[c] = << "." >> THEN NaN ELSE row[c] ]

\* FactTransformer.handle_nulls, its second statement, on one row
WhereNotNull(row) ==
    [ c \in DOMAIN row |-> IF row[c] = NaN THEN NULL ELSE row[c] ]

\* FactTransformer.handle_nulls on one row
FactHandleNulls(row) == WhereNotNull(ReplaceDot(row))

\* _hash_row that leaves the last foreign key out
HashRowFiveKeys(row) ==
    Md5(Join(<< "|" >>, [ i \in 1..(Len(FK_COLUMNS) - 1) |-> AsStr(row[FK_COLUMNS[i]]) ]))

\* FactTransformer._hash_row
HashRow(row) ==
    Md5(Join(<< "|" >>, [ i \in DOMAIN FK_COLUMNS |-> AsStr(row[FK_COLUMNS[i]]) ]))

\* FactTransformer.compute_fact_id on one row
ComputeFactId(row) ==
    [ c \in DOMAIN row \cup { "fact_id" } |->
        IF c = "fact_id" THEN HashRow(row) ELSE row[c] ]

\* FactTransformer.reorder_columns on one row: only the listed columns are kept
ReorderColumns(row) ==
    [ c \in Range(FACT_COLUMNS) \cap DOMAIN row |-> row[c] ]

\* FactTransformer.transform
FactTransform(df, now) ==
    [ i \in DOMAIN df |->
        ReorderColumns(AddAuditColumns(ComputeFactId(FactHandleNulls(CastTypes(
            RenameRow(df[i], FACT_COLUMN_MAPPING)))), now)) ]

----------------------------------------------------------------------------
(* Transformers as objects: tables live on a heap and are held by reference *)

\* a DataFrame method that works in place and returns the object it was called on
NewFrameInPlace(h, ref, table) ==
    [ heap |-> [ h EXCEPT ![ref] = table ], ref |-> ref ]

\* a DataFrame method that returns its result: the result is a new object
NewFrame(h, ref, table) ==
    [ heap |-> Append(h, table), ref |-> Len(h) + 1 ]

\* the statements transform() runs, by the method they belong to
\* a transform() that calls handle_nulls before clean_strings
DimensionChainNullsFirst ==
    << "rename_columns", "handle_nulls", "clean_strings", "add_audit_columns" >>

DimensionChain ==
    << "rename_columns", "clean_strings", "handle_nulls", "add_audit_columns" >>

FactChain ==
    << "rename_columns", "cast_types", "handle_nulls.replace", "handle_nulls.where",
       "compute_fact_id", "add_audit_columns", "reorder_columns" >>

Chain(kind) == IF kind = "DimensionTransformer" THEN DimensionChain ELSE FactChain

\* the statement assigns self.df (the others assign columns of self.df)
Rebinds(kind, st) ==
    \/ st \in { "rename_columns", "handle_nulls.where", "reorder_columns" }
    \/ kind = "DimensionTransformer" /\ st = "handle_nulls"

\* the statement raises KeyError: cast_types reads a column the table lacks
Raises(kind, st, table) ==
    /\ kind = "FactTransformer"
    /\ st = "cast_types"
    /\ \E i \in DOMAIN table :
          ~ (Range(FK_COLUMNS) \cup Range(METRIC_COLUMNS) \subseteq DOMAIN table[i])

\* one row after the statement
RowAfter(kind, st, row, now) ==
    IF st = "rename_columns"
    THEN RenameRow(row, IF kind = "DimensionTransformer"
                        THEN DIM_COLUMN_MAPPING ELSE FACT_COLUMN_MAPPING)
    ELSE IF st = "clean_strings" THEN DimCleanStrings(row)
    ELSE IF st = "handle_nulls" THEN DimHandleNulls(row)
    ELSE IF st = "cast_types" THEN CastTypes(row)
    ELSE IF st = "handle_nulls.replace" THEN ReplaceDot(row)
    ELSE IF st = "handle_nulls.where" THEN WhereNotNull(row)
    ELSE IF st = "compute_fact_id" THEN ComputeFactId(row)
    ELSE IF st = "add_audit_columns" THEN AddAuditColumns(row, now)
    ELSE ReorderColumns(row)

----------------------------------------------------------------------------
(* Validator *)

\* pd.isna on one cell
Missing(v) == v \in { NULL, NaN }

\* a cell of a float column: a number
IsNumber(v) == ~Missing(v) /\ v # << >> /\ \A i \in DOMAIN v : v[i] \in Digits

\* a dimension_schema whose key column is not declared unique
DimensionValidKeysRepeat(df) ==
    /\ \A i \in DOMAIN df :
          { "key", "title", "description", "ingested_at" } \subseteq DOMAIN df[i]
    /\ \A i \in DOMAIN df :
          /\ ~Missing(df[i].key)
          /\ ~Missing(df[i].title)
          /\ ~Missing(df[i].ingested_at)

\* dimension_schema.validate(df) succeeds: the four columns are there, key
\* and title and ingested_at hold no null, no key comes twice
DimensionValid(df) ==
    /\ \A i \in DOMAIN df :
          { "key", "title", "description", "ingested_at" } \subseteq DOMAIN df[i]
    /\ \A i \in DOMAIN df :
          /\ ~Missing(df[i].key)
          /\ ~Missing(df[i].title)
          /\ ~Missing(df[i].ingested_at)
    /\ \A i, j \in DOMAIN df : df[i].key = df[j].key => i = j

\* DataValidator.validate_dimensions succeeds
ValidateDimensions(dimensions) ==
    \A i \in DOMAIN dimensions : DimensionValid(dimensions[i].df)

\* fact_schema(dimensions) can be built: every dimension is there, with a key
\* column to take the keys from
FactSchemaBuilds(dimensions) ==
    /\ DIMENSION_NAMES \subseteq DictNames(dimensions)
    /\ \A n \in DIMENSION_NAMES :
          \A r \in Range(DictValue(dimensions, n)) : "key" \in DOMAIN r

\* a fact_schema whose foreign-key columns are declared unique
FactValidKeysUnique(dimensions, fact) ==
    /\ \A i \in DOMAIN fact : Range(FACT_COLUMNS) \subseteq DOMAIN fact[i]
    /\ \A i \in DOMAIN fact :
          /\ ~Missing(fact[i].fact_id)
          /\ ~Missing(fact[i].ingested_at)
          /\ \A k \in DOMAIN FK_COLUMNS :
                LET col == FK_COLUMNS[k]
                    keys == { r.key : r \in Range(DictValue(dimensions, FK_DIMENSION[col])) }
                IN  /\ ~Missing(fact[i][col]) /\ fact[i][col] \in keys
                    /\ \A j \in DOMAIN fact : fact[j][col] = fact[i][col] => j = i
          /\ \A k \in DOMAIN METRIC_COLUMNS :
                Missing(fact[i][METRIC_COLUMNS[k]]) \/ IsNumber(fact[i][METRIC_COLUMNS[k]])

\* fact_schema(dimensions).validate(fact) succeeds
FactValid(dimensions, fact) ==
    /\ \A i \in DOMAIN fact : Range(FACT_COLUMNS) \subseteq DOMAIN fact[i]
    /\ \A i \in DOMAIN fact :
          /\ ~Missing(fact[i].fact_id)
          /\ ~Missing(fact[i].ingested_at)
          /\ \A k \in DOMAIN FK_COLUMNS :
                LET col == FK_COLUMNS[k]
                    keys == { r.key : r \in Range(DictValue(dimensions, FK_DIMENSION[col])) }
                IN  ~Missing(fact[i][col]) /\ fact[i][col] \in keys
          /\ \A k \in DOMAIN METRIC_COLUMNS :
                Missing(fact[i][METRIC_COLUMNS[k]]) \/ IsNumber(fact[i][METRIC_COLUMNS[k]])

\* DataValidator.validate_fact succeeds: fact_schema can be built and the
\* fact table passes it
ValidateFact(dimensions, fact) ==
    FactSchemaBuilds(dimensions) /\ FactValid(dimensions, fact)

\* an except clause that prints and goes on: control stays where it was
ReraiseSwallowed(at) == at

\* the except clause of validate_dimensions and validate_fact prints and
\* raises the error again: control leaves the method
Reraise(at) == "raised"

\* DataValidator.validate_all succeeds
ValidateAll(dimensions, fact) ==
    ValidateDimensions(dimensions) /\ ValidateFact(dimensions, fact)

----------------------------------------------------------------------------
(* Loaders and the target store: a target table is the sequence of its rows *)

\* BaseLoader._build_upsert_query
BuildUpsertQuery(table_name, columns, conflict_column, update_columns) ==
    [ table_name |-> table_name,
      columns |-> columns,
      conflict_column |-> conflict_column,
      update_columns |->
          IF update_columns = NULL
          THEN SelectSeq(columns, LAMBDA c : c # conflict_column)
          ELSE update_columns ]

\* the query DimensionsLoader._upsert_table builds
DimensionQuery(table_name) ==
    BuildUpsertQuery(table_name, DIMENSION_COLUMNS, "key", DIMENSION_UPDATE_COLUMNS)

\* the query FactLoader.load builds
FactQuery ==
    BuildUpsertQuery(TABLE_NAME, FACT_COLUMNS, "fact_id", FACT_UPDATE_COLUMNS)

\* ON CONFLICT (...) DO UPDATE SET c = EXCLUDED.c, ... on the stored row
ConflictUpdate(stored, record, query) ==
    [ c \in DOMAIN stored |->
        IF c \in Range(query.update_columns) THEN record[c] ELSE stored[c] ]

\* mutant: a plain INSERT, without the ON CONFLICT clause
ExecuteRowInsertOnly(table, query, record) ==
    Append(table, [ c \in Range(query.columns) |-> record[c] ])

\* INSERT ... ON CONFLICT ... DO UPDATE for one record
ExecuteRow(table, query, record) ==
    LET cc == query.conflict_column
    IN  IF \E i \in DOMAIN table : table[i][cc] = record[cc]
        THEN [ i \in DOMAIN table |->
                 IF table[i][cc] = record[cc]
                 THEN ConflictUpdate(table[i], record, query)
                 ELSE table[i] ]
        ELSE Append(table, [ c \in Range(query.columns) |-> record[c] ])

\* conn.execute(text(query), records): the statement run for records 1..n in order
RECURSIVE ExecuteMany(_, _, _, _)
ExecuteMany(table, query, records, n) ==
    IF n = 0 THEN table
    ELSE ExecuteRow(ExecuteMany(table, query, records, n - 1), query, records[n])

\* the target's identity columns are non-null: a record without one is refused
MustFail(query, record) == record[query.conflict_column] = NULL

\* the numbers of records after which conn.execute can raise: before any
\* record, between two records, or at the end of the block (the commit)
FailurePoints(query, records) ==
    { f \in 0 .. Len(records) : \A i \in 1 .. f : ~MustFail(query, records[i]) }

\* conn.execute can run every record
CanSucceed(query, records) ==
    \A i \in DOMAIN records : ~MustFail(query, records[i])

\* mutant: the transaction is left open when the block is left
CloseTxnLeak(txns, txn) == txns

\* `with engine.begin()` is left: the connection goes back, the transaction is closed
CloseTxn(txns, txn) == txns \ { txn }

\* an entry of the transaction log
Event(op, table, dirty) == [ op |-> op, table |-> table, dirty |-> dirty ]

\* mutant: the writes made before the failure stay in the table
RollbackKeepsWrites(committed, txn) == [ committed EXCEPT ![txn.table] = txn.work ]

\* mutant: the failure undoes every table written since the entry began
RollbackWholeRun(committed, txn) == run_store0

\* `with engine.begin()` left with an exception: the transaction is rolled back
Rollback(committed, txn) == committed

\* `with engine.begin()` left normally: the transaction's writes are committed
Commit(committed, txn) == [ committed EXCEPT ![txn.table] = txn.work ]

----------------------------------------------------------------------------
(* Source inputs: what MetadataParser.parse and DataSource.read hand over *)

\* a table attribute that is None, and one that holds a DataFrame
None == [ some |-> FALSE, df |-> << >> ]
Some(df) == [ some |-> TRUE, df |-> df ]

DimRow(k, t, d) == [ Key |-> k, Title |-> t, Description |-> d ]

Section(n, df) == [ name |-> n, df |-> df ]

A == << "a" >>
B == << "b" >>

DimOne == << DimRow(A, << "t" >>, << "d" >>) >>
DimOneRetitled == << DimRow(<< " ", "a" >>, << "u", " " >>, NaN) >>
DimTwo == << DimRow(A, << "t" >>, << "d" >>), DimRow(B, << "u" >>, << >>) >>
DimPipeLeft ==
    << DimRow(<< "x", "|", "y" >>, << "t" >>, NaN), DimRow(<< "x" >>, << "u" >>, NaN),
       DimRow(A, << "t" >>, << "d" >>) >>
DimPipeRight ==
    << DimRow(<< "z" >>, << "t" >>, NaN), DimRow(<< "y", "|", "z" >>, << "u" >>, NaN),
       DimRow(A, << "t" >>, << "d" >>) >>
DimDuplicate == << DimRow(A, << "t" >>, << "d" >>), DimRow(<< "a", " " >>, << "u" >>, << "d" >>) >>

\* six sections; TravelMotives and Population hold keys containing the pipe
DocPipe ==
    << Section("TravelMotives", DimPipeLeft), Section("Population", DimPipeRight),
       Section("TravelModes", DimOne), Section("Margins", DimOne),
       Section("RegionCharacteristics", DimOne), Section("Periods", DimTwo) >>

\* the Periods section repeats a key
DocDuplicate ==
    << Section("TravelMotives", DimOne), Section("Population", DimOne),
       Section("TravelModes", DimOne), Section("Margins", DimOne),
       Section("RegionCharacteristics", DimOne), Section("Periods", DimDuplicate) >>

\* the Margins section is missing; the others come in another order, retitled,
\* with a section that is no dimension
DocMissing ==
    << Section("Periods", DimTwo), Section("TableInfos", DimOne),
       Section("RegionCharacteristics", DimOneRetitled), Section("TravelModes", DimOne),
       Section("Population", DimOneRetitled), Section("TravelMotives", DimOne) >>

\* six sections; a row of Margins has no key
DocNoKey ==
    << Section("TravelMotives", DimOne), Section("Population", DimOne),
       Section("TravelModes", DimOne),
       Section("Margins", << DimRow(A, << "t" >>, << "d" >>), DimRow(NaN, << "u" >>, << "d" >>) >>),
       Section("RegionCharacteristics", DimOne), Section("Periods", DimTwo) >>

MetadataInputs == { DocPipe, DocDuplicate, DocMissing, DocNoKey }

FactRow(fk, m) ==
    [ ID |-> << "0" >>,
      TravelMotives |-> fk[1], Population |-> fk[2], TravelModes |-> fk[3],
      Margins |-> fk[4], RegionCharacteristics |-> fk[5], Periods |-> fk[6],
      Trips_1 |-> m[1], DistanceTravelled_2 |-> m[2], TimeTravelled_3 |-> m[3],
      Trips_4 |-> m[4], DistanceTravelled_5 |-> m[5], TimeTravelled_6 |-> m[6] ]

MetricsOne == << << "1" >>, << "2" >>, << "3" >>, << "4" >>, << "5" >>, << "6" >> >>
MetricsTwo == << << "0", "7" >>, << "." >>, NaN, << "x" >>, << "8" >>, << "9" >> >>

\* two rows with the same foreign keys after trimming, and a third row
FactsRepeated ==
    << FactRow(<< A, A, A, A, A, A >>, MetricsOne),
       FactRow(<< << " ", "a" >>, A, A, A, A, << "a", " " >> >>, MetricsTwo),
       FactRow(<< A, A, A, A, A, B >>, MetricsOne) >>

\* two rows with different foreign keys and the same joined key string
FactsPipe ==
    << FactRow(<< << "x", "|", "y" >>, << "z" >>, A, A, A, A >>, MetricsOne),
       FactRow(<< << "x" >>, << "y", "|", "z" >>, A, A, A, A >>, MetricsTwo) >>

\* a foreign key no dimension holds
FactsDangling == << FactRow(<< A, A, A, A, A, << "q" >> >>, MetricsOne) >>

\* a row without its Margins key
FactsMissingKey ==
    << FactRow(<< A, A, A, A, A, A >>, MetricsOne),
       FactRow(<< A, A, A, NaN, A, A >>, MetricsTwo) >>

FactInputs == { FactsRepeated, FactsPipe, FactsDangling, FactsMissingKey }

----------------------------------------------------------------------------
(* Tables handed to a transformer exercised on its own *)

\* cells of a raw dimension table: missing, empty, blank, the tokens and text
TextCells ==
    { NaN, NULL, << >>, << " " >>, << " ", " " >>, << "n", "a", "n" >>,
      << " ", "n", "a", "n" >>, << "N", "o", "n", "e" >>, A, << " ", "a", " " >>,
      << "a", " ", "b" >> }

\* one row; either the key and the title vary or the description does
DimensionTables ==
    { << DimRow(k, t, d) >> : k \in TextCells, t \in TextCells, d \in { << "d" >>, << " " >> } }
    \cup { << DimRow(A, << "t" >>, d) >> : d \in TextCells }
    \cup { << [ Key |-> A, Title |-> << "t" >>, Description |-> NaN, Other |-> << " " >> ],
             DimRow(B, << " ", "u" >>, << >>) >> }

\* cells of a raw foreign-key column, other than the key A
KeyCells ==
    { << " ", "a" >>, << "a", " " >>, B, << "a", "|", "a" >>, NaN, NULL, << >>,
      << "n", "a", "n" >> }

\* cells of a raw metric column
MetricCells ==
    { << "." >>, NaN, NULL, << "x" >>, << >>, << " " >>, << "7" >>, << "0", "7" >>,
      << "0" >>, << "1", "0" >> }

\* six times the key A, but for one place
KeysBut(k, v) == [ i \in 1..6 |-> IF i = k THEN v ELSE A ]

\* six times the metric 1, but for one place
MetricsBut(k, v) == [ i \in 1..6 |-> IF i = k THEN v ELSE << "1" >> ]

\* two rows: the second differs from the first in one foreign key, or in one
\* metric; and a table that lacks a metric column
FactTables ==
    { << FactRow(KeysBut(1, A), MetricsOne), FactRow(KeysBut(k, v), MetricsTwo) >> :
        k \in 1..6, v \in KeyCells }
    \cup { << FactRow(KeysBut(1, A), MetricsOne), FactRow(KeysBut(1, A), MetricsBut(k, m)) >> :
        k \in { 1, 6 }, m \in MetricCells }
    \cup { << [ c \in DOMAIN FactRow(KeysBut(1, A), MetricsOne) \ { "TimeTravelled_6" } |->
                FactRow(KeysBut(1, A), MetricsOne)[c] ] >> }

\* the same rows, last to first
Reverse(df) == [ i \in DOMAIN df |-> df[Len(df) + 1 - i] ]

----------------------------------------------------------------------------
(* Tables handed to a DataValidator exercised on its own *)

\* a canonical dimension row
CanonicalRow(k, t, d) ==
    [ key |-> k, title |-> t, description |-> d, ingested_at |-> Timestamp(1) ]

\* a row without one of its columns
Without(row, col) == [ c \in DOMAIN row \ { col } |-> row[c] ]

\* unique keys a and b, a null description
TableSound == << CanonicalRow(A, << "t" >>, << "d" >>), CanonicalRow(B, << "t" >>, NULL) >>

TableExtraColumn ==
    << [ key |-> A, title |-> << "t" >>, description |-> << "d" >>,
         ingested_at |-> Timestamp(1), other |-> NULL ],
       [ key |-> B, title |-> << "t" >>, description |-> << "d" >>,
         ingested_at |-> Timestamp(1), other |-> A ] >>

\* tables dimension_schema takes
SoundTables == { TableSound, TableExtraColumn, << >> }

TableRepeatedKey == << CanonicalRow(A, << "t" >>, << "d" >>), CanonicalRow(A, << "u" >>, NULL) >>
TableNullKey == << CanonicalRow(A, << "t" >>, << "d" >>), CanonicalRow(NULL, << "u" >>, << "d" >>) >>
TableNullTitle == << CanonicalRow(A, NULL, << "d" >>), CanonicalRow(B, << "u" >>, << "d" >>) >>
TableNoKey == << Without(CanonicalRow(A, << "t" >>, << "d" >>), "key") >>
TableNoTitle == << Without(CanonicalRow(A, << "t" >>, << "d" >>), "title") >>
TableNoDescription ==
    << Without(CanonicalRow(A, << "t" >>, << "d" >>), "description"),
       Without(CanonicalRow(B, << "t" >>, << "d" >>), "description") >>
TableNullIngestedAt ==
    << [ CanonicalRow(A, << "t" >>, << "d" >>) EXCEPT !.ingested_at = NULL ],
       CanonicalRow(B, << "t" >>, << "d" >>) >>

\* tables with a repeated or null key, a null title or no key or title column
FaultyTables ==
    { TableRepeatedKey, TableNullKey, TableNullTitle, TableNoKey, TableNoTitle }

\* tables with sound keys and titles that lack something else
OtherwiseFaultyTables == { TableNoDescription, TableNullIngestedAt }

DimensionCases == SoundTables \cup FaultyTables \cup OtherwiseFaultyTables

\* the order the dimensions were put into the dict
DimensionOrder ==
    << "TravelMotives", "Population", "TravelModes", "Margins",
       "RegionCharacteristics", "Periods" >>

\* six dimensions, sound but for the places of `cases`
DimensionsBut(cases) ==
    [ i \in DOMAIN DimensionOrder |->
        Section(DimensionOrder[i], IF i \in DOMAIN cases THEN cases[i] ELSE TableSound) ]

\* a dict without its i-th entry
Dropped(d, i) == SubSeq(d, 1, i - 1) \o SubSeq(d, i + 1, Len(d))

\* the dicts a caller passes: six dimensions of which at most one is any
\* case, or two are faulty, or one is not there
ValidatorDimensions ==
    { DimensionsBut(i :> c) : i \in DOMAIN DimensionOrder, c \in DimensionCases }
    \cup { DimensionsBut(i :> c @@ j :> TableRepeatedKey) :
             i \in DOMAIN DimensionOrder, j \in DOMAIN DimensionOrder, c \in { TableNullTitle, TableNoKey } }
    \cup { Dropped(DimensionsBut(<< >>), i) : i \in DOMAIN DimensionOrder }

\* a canonical fact table of two rows on the key a, but for one foreign key
\* of the second row
FactBut(k, v) ==
    FactTransform(<< FactRow(KeysBut(1, A), MetricsOne), FactRow(KeysBut(k, v), MetricsTwo) >>,
                  Timestamp(1))

\* the fact tables a caller passes: every key held by its dimension (many
\* rows on one key), one key of one row held by no dimension, a null fact_id
ValidatorFacts ==
    { FactBut(k, v) : k \in 1..6, v \in { A, B, << "q" >> } }
    \cup { [ FactBut(1, A) EXCEPT ![1].fact_id = NULL ] }

----------------------------------------------------------------------------
(* Initial content of the target store *)

EmptyStore == [ t \in Tables |-> << >> ]

\* rows an earlier load left behind: stamped before this pipeline's clock starts
SeededStore ==
    [ t \in Tables |->
        IF t = "dim_periods"
        THEN << [ key |-> A, title |-> << "o" >>, description |-> NULL, ingested_at |-> Timestamp(0) ],
                [ key |-> << "c" >>, title |-> << "o" >>, description |-> NULL, ingested_at |-> Timestamp(0) ] >>
        ELSE IF t = TABLE_NAME
        THEN FactTransform(<< FactRow(<< A, A, A, A, A, A >>, MetricsTwo) >>, Timestamp(0))
             \o FactTransform(FactsDangling, Timestamp(0))
             \o FactTransform(<< FactsPipe[1] >>, Timestamp(0))
        ELSE << >> ]

InitialStores == { EmptyStore, SeededStore }

----------------------------------------------------------------------------
(* MetadataParser: the document is text, one character per element *)

NL == "\n"
QUOTE == "\""
BOM == "BOM"

\* the characters the regular expression's \s and str.strip() take for blank
Blank == Whitespace \cup { NL }

\* number of blank characters of c from position p on
RECURSIVE BlankRun(_, _)
BlankRun(c, p) ==
    IF p <= Len(c) /\ c[p] \in Blank THEN 1 + BlankRun(c, p + 1) ELSE 0

\* str.strip() on a block of text
RECURSIVE StripBlock(_)
StripBlock(s) ==
    IF s # << >> /\ Head(s) \in Blank THEN StripBlock(Tail(s))
    ELSE IF s # << >> /\ s[Len(s)] \in Blank THEN StripBlock(SubSeq(s, 1, Len(s) - 1))
    ELSE s

\* str.find(pat): the 0-based index of the first occurrence, or -1
Find(c, pat) ==
    LET hits == { i \in 1 .. Len(c) - Len(pat) + 1 : SubSeq(c, i, i + Len(pat) - 1) = pat }
    IN  IF hits = { } THEN -1
        ELSE (CHOOSE i \in hits : \A j \in hits : i <= j) - 1

\* c[start:end] with Python's 0-based, end-exclusive indices; a negative index
\* counts from the end
Slice(c, start, end) ==
    LET norm(k) == IF k < 0 THEN (IF Len(c) + k < 0 THEN 0 ELSE Len(c) + k)
                   ELSE IF k > Len(c) THEN Len(c) ELSE k
    IN  SubSeq(c, norm(start) + 1, norm(end))

\* one attempt of the section-header pattern (re.MULTILINE) at the line start at
\* position p: blanks, an optional byte-order mark, a quote, one or more
\* characters up to the next quote, then as many blanks as still leave the end
\* of a line (or of the text) behind them
MatchAt(c, p) ==
    LET a == p + BlankRun(c, p)
        b == IF a <= Len(c) /\ c[a] = BOM THEN a + 1 ELSE a
        closing == { q \in b + 1 .. Len(c) : c[q] = QUOTE }
        q == CHOOSE x \in closing : \A y \in closing : x <= y
        ends == { e \in q + 1 .. q + 1 + BlankRun(c, q + 1) :
                    e = Len(c) + 1 \/ c[e] = NL }
    IN  IF b <= Len(c) /\ c[b] = QUOTE /\ closing # { } /\ q > b + 1 /\ ends # { }
        THEN [ ok |-> TRUE, name |-> SubSeq(c, b + 1, q - 1),
               end |-> CHOOSE e \in ends : \A x \in ends : x <= e ]
        ELSE [ ok |-> FALSE, name |-> << >>, end |-> p ]

\* re.findall from position pos on: the matches, left to right, not overlapping
RECURSIVE FindAllFrom(_, _)
FindAllFrom(c, pos) ==
    LET starts == { p \in pos .. Len(c) :
                      (p = 1 \/ c[p - 1] = NL) /\ MatchAt(c, p).ok }
        p == CHOOSE x \in starts : \A y \in starts : x <= y
    IN  IF starts = { } THEN << >>
        ELSE << MatchAt(c, p).name >> \o FindAllFrom(c, MatchAt(c, p).end)

\* MetadataParser._find_sections
FindSections(c) == FindAllFrom(c, 1)

\* the position after the first line of c, a newline inside quotes not ending it
\* (read_csv's skiprows=1)
RECURSIVE SkipLine(_, _, _)
SkipLine(c, i, quoted) ==
    IF i > Len(c) THEN i
    ELSE IF c[i] = NL /\ ~quoted THEN i + 1
    ELSE SkipLine(c, i + 1, IF c[i] = QUOTE THEN ~quoted ELSE quoted)

\* number of spaces of c from position p on
RECURSIVE SpaceRun(_, _)
SpaceRun(c, p) ==
    IF p <= Len(c) /\ c[p] \in Whitespace THEN 1 + SpaceRun(c, p + 1) ELSE 0

\* the line starting at position i holds nothing but spaces
BlankLine(c, i) ==
    LET k == i + SpaceRun(c, i)
    IN  k > Len(c) \/ c[k] = NL

\* read_csv's tokenizer (quotechar '"', doubled quotes) on one field, from
\* position i on in the given state: the field's text, the position of the
\* separator or newline that ends it (past the end of the text when none
\* does), and whether the text ended inside the quotes
RECURSIVE ReadField(_, _, _, _, _)
ReadField(c, sep, i, state, field) ==
    IF i > Len(c)
    THEN [ text |-> field, stop |-> i, open |-> state = "in_quoted_field" ]
    ELSE IF state = "start_field" /\ c[i] = QUOTE
    THEN ReadField(c, sep, i + 1, "in_quoted_field", field)
    ELSE IF state = "in_quoted_field"
    THEN IF c[i] = QUOTE
         THEN ReadField(c, sep, i + 1, "quote_in_quoted_field", field)
         ELSE ReadField(c, sep, i + 1, "in_quoted_field", Append(field, c[i]))
    ELSE IF state = "quote_in_quoted_field" /\ c[i] = QUOTE
    THEN ReadField(c, sep, i + 1, "in_quoted_field", Append(field, c[i]))
    ELSE IF c[i] \in { NL, sep }
    THEN [ text |-> field, stop |-> i, open |-> FALSE ]
    ELSE ReadField(c, sep, i + 1, "in_field", Append(field, c[i]))

\* the tokenizer on one line, from the field starting at position i on
RECURSIVE ReadLine(_, _, _, _)
ReadLine(c, sep, i, line) ==
    LET f == ReadField(c, sep, i, "start_field", << >>)
    IN  IF f.open THEN [ fields |-> Append(line, f.text), next |-> f.stop, open |-> TRUE ]
        ELSE IF f.stop <= Len(c) /\ c[f.stop] = sep
        THEN ReadLine(c, sep, f.stop + 1, Append(line, f.text))
        ELSE [ fields |-> Append(line, f.text), next |-> f.stop + 1, open |-> FALSE ]

\* the tokenizer from the line starting at position i on (blank lines are
\* skipped): the lines read, each the sequence of its fields, and whether the
\* text ended inside a quoted field
RECURSIVE Tokenize(_, _, _, _)
Tokenize(c, sep, i, lines) ==
    IF i > Len(c) THEN [ error |-> FALSE, lines |-> lines ]
    ELSE IF BlankLine(c, i) THEN Tokenize(c, sep, SkipLine(c, i, FALSE), lines)
    ELSE LET l == ReadLine(c, sep, i, << >>)
         IN  IF l.open THEN [ error |-> TRUE, lines |-> lines ]
             ELSE Tokenize(c, sep, l.next, Append(lines, l.fields))

\* the field texts read_csv takes for missing values
NaValues ==
    { << >>, << "n", "a", "n" >>, << "N", "a", "N" >>, << "N", "A" >>,
      << "N", "o", "n", "e" >>, << "N", "U", "L", "L" >>, << "n", "u", "l", "l" >> }

IsNumeral(v) == v # << >> /\ \A i \in DOMAIN v : v[i] \in Digits

\* read_csv's type inference on one column: a column of whole numbers is read
\* as numbers (as floating-point numbers when a value is missing), any other
\* column as text; a cell is written as str() writes it
InferColumn(fields) ==
    LET present == { i \in DOMAIN fields : fields[i] \notin NaValues }
        numeric == present # { } /\ \A i \in present : IsNumeral(fields[i])
        whole == present = DOMAIN fields
    IN  [ i \in DOMAIN fields |->
            IF i \notin present THEN NaN
            ELSE IF ~numeric THEN fields[i]
            ELSE IF whole THEN StripZeros(fields[i])
            ELSE StripZeros(fields[i]) \o << ".", "0" >> ]

\* a column name as a record label
RECURSIVE Label(_)
Label(text) == IF text = << >> THEN "" ELSE Head(text) \o Label(Tail(text))

Max(a, b) == IF a >= b THEN a ELSE b

\* a line of fewer than n fields gets empty fields at its end
Pad(line, n) == [ k \in 1 .. Max(n, Len(line)) |-> IF k <= Len(line) THEN line[k] ELSE << >> ]

\* pd.read_csv(sep=sep, quotechar='"') on the text from position `first` on:
\* the DataFrame, or the error raised.  The first line read names the
\* columns.  A first data line longer than it makes the leading fields the row
\* labels; a later line longer than the lines before is an error, a shorter
\* line is filled with missing values.
ReadTable(block, sep, first) ==
    LET tokens == Tokenize(block, sep, first, << >>)
        header == tokens.lines[1]
        data == Tail(tokens.lines)
        width == IF data = << >> THEN Len(header) ELSE Max(Len(header), Len(data[1]))
        leading == width - Len(header)
        column(k) == InferColumn([ r \in DOMAIN data |-> Pad(data[r], width)[leading + k] ])
    IN  IF tokens.error THEN [ error |-> "ParserError", df |-> << >> ]
        ELSE IF tokens.lines = << >> THEN [ error |-> "EmptyDataError", df |-> << >> ]
        ELSE IF \E r \in DOMAIN data : Len(data[r]) > width
        THEN [ error |-> "ParserError", df |-> << >> ]
        ELSE [ error |-> "none",
               df |-> [ r \in DOMAIN data |->
                          [ n \in { Label(header[k]) : k \in DOMAIN header } |->
                              column(CHOOSE k \in DOMAIN header : Label(header[k]) = n)[r] ] ] ]

\* pd.read_csv(io.StringIO(block), sep=sep, skiprows=1, quotechar='"')
ReadCsv(block, sep) == ReadTable(block, sep, SkipLine(block, 1, FALSE))

\* DataSource.read: pd.read_csv(DATA_PATH, sep=config.SEPARATOR)
DataSourceRead(text, config) == ReadTable(text, config.SEPARATOR, 1)

\* one pass of the loop of MetadataParser.parse, for sections[i]: the section
\* is not found (skipped), or read_csv reads its block or raises
ParseSection(c, sep, found, i) ==
    LET marker == found[i]
        full_marker == << QUOTE >> \o marker \o << QUOTE >>
        start == Find(c, full_marker \o << NL >>)
        end == IF i + 1 <= Len(found)
               THEN Find(c, << QUOTE >> \o found[i + 1] \o << QUOTE >> \o << NL >>)
               ELSE Len(c)
        block_text == StripBlock(Slice(c, start, end))
        read == ReadCsv(block_text, sep)
    IN  IF start = -1 THEN [ skipped |-> TRUE, error |-> "none", df |-> << >> ]
        ELSE [ skipped |-> FALSE, error |-> read.error, df |-> read.df ]

----------------------------------------------------------------------------
(* Metadata documents: what the file at METADATA_PATH can hold *)

Key == << "K", "e", "y" >>
Title == << "T", "i", "t", "l", "e" >>
Description == << "D", "e", "s", "c", "r", "i", "p", "t", "i", "o", "n" >>

ColumnLine == << Key, Title, Description >>

\* a field written between quotes
Quoted(text) == << QUOTE >> \o text \o << QUOTE >>

\* a section as written: its name and the lines under its header line, each
\* the fields as written (the first line names the columns)
SectionText(name, lines) == [ name |-> name, lines |-> lines ]

SectionNames == << << "S", "1" >>, << "S", "2" >>, << "S", "3" >> >>

\* well-formed bodies: two rows (a whole-number key, an empty description),
\* one row with the separator inside a quoted field, no row at all
BodyRows ==
    << ColumnLine, << << "0", "1" >>, << "t" >>, << "d" >> >>,
                   << << "2" >>, << "u", " " >>, << >> >> >>
BodyQuotedField(sep) ==
    << ColumnLine, << A, Quoted(<< "t", sep, "u" >>), << "d" >> >> >>
BodyNoRows == << ColumnLine >>

\* ragged bodies, which read_csv reads all the same: a row with a field too
\* few, a first row with a field too many
BodyShortRow == << ColumnLine, << A, << "t" >> >> >>
BodyLongFirstRow == << ColumnLine, << A, << "t" >>, << "d" >>, << "x" >> >> >>

\* malformed bodies: a second row with a field too many, no column line, a
\* quote that is never closed
BodyLongRow ==
    << ColumnLine, << A, << "t" >>, << "d" >> >>, << B, << "u" >>, << "d" >>, << "x" >> >> >>
BodyNoColumns == << >>
BodyOpenQuote == << ColumnLine, << A, << QUOTE, "t" >>, << "d" >> >> >>

\* a row with a quoted field whose text is the second section's name: as its
\* last field, and before its last field
BodyNameLast == << ColumnLine, << A, << "t" >>, Quoted(SectionNames[2]) >> >>
BodyNameInside == << ColumnLine, << A, Quoted(SectionNames[2]), << "d" >> >> >>

WellFormedBodies(sep) ==
    { BodyRows, BodyQuotedField(sep), BodyNoRows, BodyNameLast, BodyNameInside }

RaggedBodies == { BodyShortRow, BodyLongFirstRow }

MalformedBodies == { BodyLongRow, BodyNoColumns, BodyOpenQuote }

\* the documents: no file, or three sections, at most one header line with
\* blanks after the quoted name, the last line with or without its newline
Documents(sep) ==
    { [ exists |-> FALSE ] }
    \cup
    { [ exists |-> TRUE, sep |-> sep, final_newline |-> nl, blank_header |-> bh,
        sections |-> [ k \in 1 .. 3 |->
            SectionText(SectionNames[k], bodies[k]) ] ] :
        nl \in BOOLEAN, bh \in 0 .. 3,
        bodies \in [ 1 .. 3 -> WellFormedBodies(sep) \cup RaggedBodies \cup MalformedBodies ] }

\* the text of one line: its fields joined by the separator, and a newline
RenderLine(fields, sep) == Join(<< sep >>, fields) \o << NL >>

RECURSIVE RenderLines(_, _)
RenderLines(lines, sep) ==
    IF lines = << >> THEN << >>
    ELSE RenderLine(Head(lines), sep) \o RenderLines(Tail(lines), sep)

\* the text of the document, written with separator sep
RenderSection(doc, k, sep) ==
    Quoted(doc.sections[k].name)
        \o (IF doc.blank_header = k THEN << " " >> ELSE << >>) \o << NL >>
        \o RenderLines(doc.sections[k].lines, sep)

Render(doc, sep) ==
    LET text == RenderSection(doc, 1, sep) \o RenderSection(doc, 2, sep)
                    \o RenderSection(doc, 3, sep)
    IN  IF doc.final_newline THEN text ELSE SubSeq(text, 1, Len(text) - 1)

Separators == { ";" }


----------------------------------------------------------------------------
(* The pipeline *)

NoRun ==
    [ kind |-> "none", outcome |-> "none", failed_stage |-> "none",
      raw_dimensions |-> << >>, raw_facts |-> None, store0 |-> EmptyStore ]

NoResult == [ returned |-> FALSE, dimensions_loaded |-> << >>, facts_loaded |-> 0 ]

\* ETLResult
ETLResult(dimensions_loaded, facts_loaded) ==
    [ returned |-> TRUE, dimensions_loaded |-> dimensions_loaded,
      facts_loaded |-> facts_loaded ]

\* mutant: the property counts the tables, not their rows
SumCountsTables(d) == Len(d)

\* ETLResult.total_dimensions
RECURSIVE SumCounts(_)
SumCounts(d) == IF d = << >> THEN 0 ELSE Head(d).df + SumCounts(Tail(d))

total_dimensions(r) == SumCounts(r.dimensions_loaded)

NotValidated == [ ok |-> FALSE, dimensions |-> << >>, fact |-> None ]

\* no MetadataParser is exercised on its own
ParserIdle ==
    /\ document = [ exists |-> FALSE ]
    /\ separator = ";"
    /\ content = NULL
    /\ sections = << >>
    /\ parse_i = 0
    /\ dataframes = << >>
    /\ reported = << >>
    /\ parser_pc = "none"

\* no transformer is exercised on its own
TransformerIdle ==
    /\ heap = << >>
    /\ caller_df = 0
    /\ passed = << >>
    /\ self_df = 0
    /\ chain = << >>
    /\ transformer = "none"
    /\ transform_clock = 0
    /\ transform_calls = << >>
    /\ transformer_pc = "none"

\* no DataValidator is exercised on its own
ValidatorIdle ==
    /\ self_dimensions = << >>
    /\ self_fact = << >>
    /\ validator_method = "none"
    /\ validate_i = 0
    /\ checked = << >>
    /\ violations = << >>
    /\ validator_pc = "none"

\* the source files are not looked at: SourceConfig's default separator
SourceIdle ==
    /\ source_config = [ SEPARATOR |-> ";" ]
    /\ data_file = [ exists |-> FALSE ]
    /\ read_sep = NULL

\* no component is exercised on its own
ComponentsIdle == ParserIdle /\ TransformerIdle /\ ValidatorIdle /\ SourceIdle

\* ETLPipeline.__init__, before a store whose tables exist already
Init ==
    /\ ComponentsIdle
    /\ raw_dimensions = << >>
    /\ raw_facts = None
    /\ transformed_dimensions = << >>
    /\ transformed_facts = None
    /\ store \in InitialStores
    /\ open_txns = { }
    /\ pc = "idle"
    /\ load_i = 0
    /\ dim_results = << >>
    /\ result = NoResult
    /\ caller = "none"
    /\ outcome = "none"
    /\ failed_stage = "none"
    /\ clock = 1
    /\ trace = << >>
    /\ run_store0 = store
    /\ txn_log = << >>
    /\ upsert_store0 = store
    /\ validated = NotValidated
    /\ prev_run = NoRun
    /\ fact_loads = << >>
    /\ failures = 0
    /\ calls = 0

\* mutant: run() goes from transform straight to load
NextStageSkipValidate(stage) ==
    CASE stage = "extract" -> "transform"
      [] stage = "transform" -> "load"
      [] OTHER -> "idle"

\* the stage run() calls after `stage`
NextStage(stage) ==
    CASE stage = "extract" -> "transform"
      [] stage = "transform" -> "validate"
      [] stage = "validate" -> "load"
      [] OTHER -> "idle"

\* where control goes when `stage` returns: run() chains into the next stage,
\* a stage called on its own returns to its caller
AfterReturn(stage) == IF caller = "run" THEN NextStage(stage) ELSE "idle"

\* mutant: the exception is swallowed and run() goes on with the next stage
AfterRaiseContinue(stage) == IF caller = "run" THEN "load" ELSE "idle"

\* where control goes when `stage` raises: nothing catches it before the caller
AfterRaise(stage) == "idle"

\* the stage returns normally
Return(stage) ==
    /\ pc' = AfterReturn(stage)
    /\ outcome' = IF AfterReturn(stage) = "idle" THEN "returned" ELSE outcome
    /\ UNCHANGED failed_stage

\* the stage raises
Raise(stage) ==
    /\ pc' = AfterRaise(stage)
    /\ outcome' = IF AfterRaise(stage) = "idle" THEN "raised" ELSE outcome
    /\ failed_stage' = stage

\* a caller enters the pipeline: by run(), or by calling one stage
Enter(kind, stage) ==
    /\ pc = "idle"
    /\ pc' = stage
    /\ caller' = kind
    /\ outcome' = "running"
    /\ failed_stage' = "none"
    /\ trace' = IF kind = "run" THEN << >> ELSE trace
    /\ txn_log' = << >>
    /\ result' = NoResult
    /\ run_store0' = store
    /\ prev_run' =
          IF caller = "run"
          THEN [ kind |-> caller, outcome |-> outcome, failed_stage |-> failed_stage,
                 raw_dimensions |-> raw_dimensions, raw_facts |-> raw_facts,
                 store0 |-> run_store0 ]
          ELSE NoRun
    /\ calls' = IF kind = "call" THEN calls + 1 ELSE calls
    /\ UNCHANGED << raw_dimensions, raw_facts, transformed_dimensions, transformed_facts,
                    store, open_txns, load_i, dim_results, clock, upsert_store0,
                    validated, fact_loads, failures >>
    /\ UNCHANGED component_vars

\* ETLPipeline.run is called
RunStart == clock <= MaxClock /\ Enter("run", "extract")

\* ETLPipeline.extract
Extract ==
    /\ pc = "extract"
    /\ trace' = Append(trace, "extract")
    /\ \/ \* the metadata file is missing: MetadataParser.parse raises
          /\ Raise("extract")
          /\ UNCHANGED << raw_dimensions, raw_facts >>
       \/ \* the data file is missing: DataSource.read raises
          /\ \E doc \in MetadataInputs : raw_dimensions' = doc
          /\ Raise("extract")
          /\ UNCHANGED raw_facts
       \/ /\ \E doc \in MetadataInputs : raw_dimensions' = doc
          /\ \E facts \in FactInputs : raw_facts' = Some(facts)
          /\ Return("extract")
    /\ UNCHANGED << transformed_dimensions, transformed_facts, store, open_txns, load_i,
                    dim_results, result, caller, clock, run_store0, txn_log,
                    upsert_store0, validated, prev_run, fact_loads, failures, calls >>
    /\ UNCHANGED component_vars

\* the loop of ETLPipeline.transform over raw_dimensions[1..n]
RECURSIVE TransformDimensions(_, _, _, _)
TransformDimensions(transformed, raw, n, now) ==
    IF n = 0 THEN transformed
    ELSE LET before == TransformDimensions(transformed, raw, n - 1, now)
         IN  IF raw[n].name \notin DIMENSION_NAMES
             THEN before
             ELSE DictSet(before, raw[n].name, DimensionTransform(raw[n].df, now))

\* ETLPipeline.transform
Transform ==
    /\ pc = "transform"
    /\ trace' = Append(trace, "transform")
    /\ clock' = clock + 1
    /\ transformed_dimensions' =
          TransformDimensions(transformed_dimensions, raw_dimensions,
                              Len(raw_dimensions), Timestamp(clock))
    /\ IF raw_facts.some
       THEN /\ transformed_facts' = Some(FactTransform(raw_facts.df, Timestamp(clock)))
            /\ Return("transform")
       ELSE \* FactTransformer(None) raises
            /\ Raise("transform")
            /\ UNCHANGED transformed_facts
    /\ UNCHANGED << raw_dimensions, raw_facts, store, open_txns, load_i, dim_results,
                    result, caller, run_store0, txn_log, upsert_store0, validated,
                    prev_run, fact_loads, failures, calls >>
    /\ UNCHANGED component_vars

\* ETLPipeline.validate
Validate ==
    /\ pc = "validate"
    /\ trace' = Append(trace, "validate")
    /\ IF transformed_facts.some /\ ValidateAll(transformed_dimensions, transformed_facts.df)
       THEN /\ validated' = [ ok |-> TRUE, dimensions |-> transformed_dimensions,
                              fact |-> transformed_facts ]
            /\ Return("validate")
       ELSE /\ Raise("validate")
            /\ UNCHANGED validated
    /\ UNCHANGED << raw_dimensions, raw_facts, transformed_dimensions, transformed_facts,
                    store, open_txns, load_i, dim_results, result, caller, clock,
                    run_store0, txn_log, upsert_store0, prev_run, fact_loads, failures, calls >>
    /\ UNCHANGED component_vars

\* the transaction open on `table`
TxnOn(table) == CHOOSE t \in open_txns : t.table = table

\* the record of a fact load that committed, kept for the last two of them
FactLoadRecord(df, after) == [ df |-> df, after |-> after ]

LastTwo(loads) == IF Len(loads) > 2 THEN Tail(loads) ELSE loads

\* ETLPipeline.load is entered: DimensionsLoader.load starts with no results
LoadEnter ==
    /\ pc = "load"
    /\ trace' = Append(trace, "load")
    /\ txn_log' = << >>
    /\ dim_results' = << >>
    /\ load_i' = 1
    /\ pc' = "load_dims"
    /\ UNCHANGED << raw_dimensions, raw_facts, transformed_dimensions, transformed_facts,
                    store, open_txns, result, caller, outcome, failed_stage, clock,
                    run_store0, upsert_store0, validated, prev_run, fact_loads, failures, calls >>
    /\ UNCHANGED component_vars

\* mutant: a name outside TABLE_MAPPING falls back to a table
TableForWithDefault(source_name) ==
    IF source_name \in DOMAIN TABLE_MAPPING THEN TABLE_MAPPING[source_name]
    ELSE "dim_periods"

\* DimensionsLoader.load: self.TABLE_MAPPING.get(source_name); "" stands for
\* the None that `if not table_name` skips
TableFor(source_name) ==
    IF source_name \in DOMAIN TABLE_MAPPING THEN TABLE_MAPPING[source_name] ELSE ""

\* engine.begin() opens a transaction (TRUE) or, the store failing, raises
Connects == IF failures < MaxFailures THEN BOOLEAN ELSE { TRUE }

\* DimensionsLoader.load: the next dimension of the loop.  A name outside
\* TABLE_MAPPING is skipped; for a mapped one _upsert_table opens a transaction.
DimBegin ==
    /\ pc = "load_dims"
    /\ load_i <= Len(transformed_dimensions)
    /\ LET name == transformed_dimensions[load_i].name
       IN  IF TableFor(name) = ""
           THEN /\ load_i' = load_i + 1
                /\ UNCHANGED << open_txns, txn_log, upsert_store0, pc, outcome,
                                failed_stage, failures >>
           ELSE \E connected \in Connects :
                  /\ upsert_store0' = store
                  /\ IF connected
                     THEN /\ open_txns' = open_txns \cup
                                { [ table |-> TableFor(name),
                                    work |-> store[TableFor(name)], failed |-> FALSE ] }
                          /\ txn_log' = Append(txn_log, Event("begin", TableFor(name), FALSE))
                          /\ pc' = "dim_execute"
                          /\ UNCHANGED << load_i, outcome, failed_stage, failures >>
                     ELSE \* no transaction was opened
                          /\ Raise("load")
                          /\ failures' = failures + 1
                          /\ UNCHANGED << load_i, open_txns, txn_log >>
    /\ UNCHANGED << raw_dimensions, raw_facts, transformed_dimensions, transformed_facts,
                    store, dim_results, result, caller, clock, trace, run_store0,
                    validated, prev_run, fact_loads, calls >>
    /\ UNCHANGED component_vars

\* conn.execute inside the open transaction: every record is written, or the
\* statement fails after f of them (because the store fails, or because it
\* refuses record f + 1)
Execute(table, query, records) ==
    LET txn == TxnOn(table)
        refused(f) == f < Len(records) /\ MustFail(query, records[f + 1])
    IN  \E f \in FailurePoints(query, records), ok \in BOOLEAN :
           /\ ok => f = Len(records) /\ CanSucceed(query, records)
           /\ ~ok => refused(f) \/ failures < MaxFailures
           /\ failures' = IF ~ok /\ ~refused(f) THEN failures + 1 ELSE failures
           /\ open_txns' = (open_txns \ { txn }) \cup
                 { [ txn EXCEPT !.work = ExecuteMany(txn.work, query, records, f),
                                !.failed = ~ok ] }

\* DimensionsLoader._upsert_table: conn.execute(text(query), records)
DimExecute ==
    /\ pc = "dim_execute"
    /\ LET table == TableFor(transformed_dimensions[load_i].name)
       IN  Execute(table, DimensionQuery(table), transformed_dimensions[load_i].df)
    /\ pc' = "dim_exit"
    /\ UNCHANGED << raw_dimensions, raw_facts, transformed_dimensions, transformed_facts,
                    store, load_i, dim_results, result, caller, outcome, failed_stage,
                    clock, trace, run_store0, txn_log, upsert_store0, validated,
                    prev_run, fact_loads, calls >>
    /\ UNCHANGED component_vars

\* DimensionsLoader._upsert_table: the `with` block is left, and on success the
\* row count goes into `results`
DimExit ==
    /\ pc = "dim_exit"
    /\ LET table == TableFor(transformed_dimensions[load_i].name)
           txn == TxnOn(table)
       IN  /\ open_txns' = CloseTxn(open_txns, txn)
           /\ IF txn.failed
              THEN /\ store' = Rollback(store, txn)
                   /\ txn_log' = Append(txn_log, Event("rollback", table, txn.work # store[table]))
                   /\ Raise("load")
                   /\ UNCHANGED << load_i, dim_results >>
              ELSE /\ store' = Commit(store, txn)
                   /\ txn_log' = Append(txn_log, Event("commit", table, txn.work # store[table]))
                   /\ dim_results' = DictSet(dim_results, table,
                                             Len(transformed_dimensions[load_i].df))
                   /\ load_i' = load_i + 1
                   /\ pc' = "load_dims"
                   /\ UNCHANGED << outcome, failed_stage >>
    /\ UNCHANGED << raw_dimensions, raw_facts, transformed_dimensions, transformed_facts,
                    result, caller, clock, trace, run_store0, upsert_store0, validated,
                    prev_run, fact_loads, failures, calls >>
    /\ UNCHANGED component_vars

\* ETLPipeline.load after the dimensions: FactLoader.load opens its transaction
FactBegin ==
    /\ pc = "load_dims"
    /\ load_i > Len(transformed_dimensions)
    /\ upsert_store0' = store
    /\ IF ~transformed_facts.some
       THEN \* None.to_dict raises before a transaction is opened
            /\ Raise("load")
            /\ UNCHANGED << open_txns, txn_log, failures >>
       ELSE \E connected \in Connects :
              IF connected
              THEN /\ open_txns' = open_txns \cup
                         { [ table |-> TABLE_NAME, work |-> store[TABLE_NAME],
                             failed |-> FALSE ] }
                   /\ txn_log' = Append(txn_log, Event("begin", TABLE_NAME, FALSE))
                   /\ pc' = "fact_execute"
                   /\ UNCHANGED << outcome, failed_stage, failures >>
              ELSE /\ Raise("load")
                   /\ failures' = failures + 1
                   /\ UNCHANGED << open_txns, txn_log >>
    /\ UNCHANGED << raw_dimensions, raw_facts, transformed_dimensions, transformed_facts,
                    store, load_i, dim_results, result, caller, clock, trace,
                    run_store0, validated, prev_run, fact_loads, calls >>
    /\ UNCHANGED component_vars

\* FactLoader.load: conn.execute(text(query), records)
FactExecute ==
    /\ pc = "fact_execute"
    /\ Execute(TABLE_NAME, FactQuery, transformed_facts.df)
    /\ pc' = "fact_exit"
    /\ UNCHANGED << raw_dimensions, raw_facts, transformed_dimensions, transformed_facts,
                    store, load_i, dim_results, result, caller, outcome, failed_stage,
                    clock, trace, run_store0, txn_log, upsert_store0, validated,
                    prev_run, fact_loads, calls >>
    /\ UNCHANGED component_vars

\* FactLoader.load: the `with` block is left; on success ETLPipeline.load
\* returns the ETLResult
FactExit ==
    /\ pc = "fact_exit"
    /\ LET txn == TxnOn(TABLE_NAME)
       IN  /\ open_txns' = CloseTxn(open_txns, txn)
           /\ IF txn.failed
              THEN /\ store' = Rollback(store, txn)
                   /\ txn_log' = Append(txn_log, Event("rollback", TABLE_NAME, txn.work # store[TABLE_NAME]))
                   /\ Raise("load")
                   /\ UNCHANGED << result, fact_loads >>
              ELSE /\ store' = Commit(store, txn)
                   /\ txn_log' = Append(txn_log, Event("commit", TABLE_NAME, txn.work # store[TABLE_NAME]))
                   /\ result' = ETLResult(dim_results, Len(transformed_facts.df))
                   /\ fact_loads' = LastTwo(Append(fact_loads,
                         FactLoadRecord(transformed_facts.df, Commit(store, txn)[TABLE_NAME])))
                   /\ Return("load")
    /\ UNCHANGED << raw_dimensions, raw_facts, transformed_dimensions, transformed_facts,
                    load_i, dim_results, caller, clock, trace, run_store0,
                    upsert_store0, validated, prev_run, failures, calls >>
    /\ UNCHANGED component_vars

\* a caller calls one stage of the pipeline object on its own
CallExtract == calls < MaxCalls /\ Enter("call", "extract")

CallTransform == calls < MaxCalls /\ clock <= MaxClock /\ Enter("call", "transform")

CallValidate == calls < MaxCalls /\ Enter("call", "validate")

CallLoad == calls < MaxCalls /\ Enter("call", "load")

Stages ==
    \/ Extract
    \/ Transform
    \/ Validate
    \/ LoadEnter
    \/ DimBegin
    \/ DimExecute
    \/ DimExit
    \/ FactBegin
    \/ FactExecute
    \/ FactExit

\* the pipeline as main() drives it: every entry is a call of run()
Next == RunStart \/ Stages

Spec == Init /\ [][Next]_vars

\* the pipeline object under a caller that calls the stages one by one
NextCalls ==
    \/ CallExtract
    \/ CallTransform
    \/ CallValidate
    \/ CallLoad
    \/ Stages

SpecCalls == Init /\ [][NextCalls]_vars

----------------------------------------------------------------------------
(* The load stage on tables its caller hands over *)

\* canonical dimension tables
Canonical(df) == DimensionTransform(df, Timestamp(0))

\* the dicts handed to DimensionsLoader.load: with a name outside
\* TABLE_MAPPING between two dimensions, after all six, or on its own
LoadDimensions ==
    { << Section("Periods", Canonical(DimTwo)), Section("TableInfos", Canonical(DimOne)),
         Section("Population", Canonical(DimOne)) >>,
      << Section("TravelMotives", Canonical(DimOne)), Section("Population", Canonical(DimOne)),
         Section("TravelModes", Canonical(DimOne)), Section("Margins", Canonical(DimOne)),
         Section("RegionCharacteristics", Canonical(DimOne)), Section("Periods", Canonical(DimTwo)),
         Section("UnknownDimension", Canonical(DimTwo)) >>,
      << Section("TableInfos", Canonical(DimTwo)) >> }

\* a pipeline object whose canonical tables were assigned by its user
InitLoad ==
    /\ ComponentsIdle
    /\ raw_dimensions = << >>
    /\ raw_facts = None
    /\ transformed_dimensions \in LoadDimensions
    /\ transformed_facts = Some(FactTransform(FactsDangling, Timestamp(0)))
    /\ store \in InitialStores
    /\ open_txns = { }
    /\ pc = "idle"
    /\ load_i = 0
    /\ dim_results = << >>
    /\ result = NoResult
    /\ caller = "none"
    /\ outcome = "none"
    /\ failed_stage = "none"
    /\ clock = 1
    /\ trace = << >>
    /\ run_store0 = store
    /\ txn_log = << >>
    /\ upsert_store0 = store
    /\ validated = NotValidated
    /\ prev_run = NoRun
    /\ fact_loads = << >>
    /\ failures = 0
    /\ calls = 0

NextLoad ==
    \/ CallLoad
    \/ LoadEnter
    \/ DimBegin
    \/ DimExecute
    \/ DimExit
    \/ FactBegin
    \/ FactExecute
    \/ FactExit

SpecLoad == InitLoad /\ [][NextLoad]_vars

----------------------------------------------------------------------------

(* MetadataParser on its own *)

\* the pipeline object is not used
PipelineIdle ==
    /\ raw_dimensions = << >>
    /\ raw_facts = None
    /\ transformed_dimensions = << >>
    /\ transformed_facts = None
    /\ store = EmptyStore
    /\ open_txns = { }
    /\ pc = "idle"
    /\ load_i = 0
    /\ dim_results = << >>
    /\ result = NoResult
    /\ caller = "none"
    /\ outcome = "none"
    /\ failed_stage = "none"
    /\ clock = 1
    /\ trace = << >>
    /\ run_store0 = store
    /\ txn_log = << >>
    /\ upsert_store0 = store
    /\ validated = NotValidated
    /\ prev_run = NoRun
    /\ fact_loads = << >>
    /\ failures = 0
    /\ calls = 0

\* MetadataParser.__init__
InitParser ==
    /\ PipelineIdle
    /\ TransformerIdle
    /\ ValidatorIdle
    /\ SourceIdle
    /\ separator \in Separators
    /\ document \in Documents(separator)
    /\ content = NULL
    /\ sections = << >>
    /\ parse_i = 0
    /\ dataframes = << >>
    /\ reported = << >>
    /\ parser_pc = "new"

\* MetadataParser.parse up to its loop: _read_content (which raises when there
\* is no file) and _find_sections
ReadContent ==
    /\ parser_pc = "new"
    /\ IF document.exists
       THEN /\ content' = Render(document, document.sep)
            /\ sections' = FindSections(Render(document, document.sep))
            /\ parse_i' = 1
            /\ parser_pc' = "loop"
       ELSE /\ parser_pc' = "raised"
            /\ UNCHANGED << content, sections, parse_i >>
    /\ UNCHANGED << document, separator, dataframes, reported, outside_parser >>

\* MetadataParser.parse: one pass of the loop
ParseLoop ==
    /\ parser_pc = "loop"
    /\ parse_i <= Len(sections)
    /\ LET step == ParseSection(content, separator, sections, parse_i)
           marker == Label(sections[parse_i])
       IN  /\ dataframes' = IF ~step.skipped /\ step.error = "none"
                            THEN DictSet(dataframes, marker, step.df)
                            ELSE dataframes
           /\ reported' = IF ~step.skipped /\ step.error # "none"
                          THEN Append(reported, marker)
                          ELSE reported
    /\ parse_i' = parse_i + 1
    /\ UNCHANGED << document, separator, content, sections, parser_pc, outside_parser >>

\* MetadataParser.parse returns self.dataframes
ParseReturn ==
    /\ parser_pc = "loop"
    /\ parse_i > Len(sections)
    /\ parser_pc' = "returned"
    /\ UNCHANGED << document, separator, content, sections, parse_i, dataframes,
                    reported, outside_parser >>

NextParser == ReadContent \/ ParseLoop \/ ParseReturn

SpecParser == InitParser /\ [][NextParser]_vars

----------------------------------------------------------------------------
(* ETLPipeline.extract on its source files *)

\* the separator parameter's default in MetadataParser.__init__
DEFAULT_SEPARATOR == ";"

\* the separator of the parser extract() constructs: extract() passes
\* MetadataParser the path alone
ExtractParserSeparator(config) == DEFAULT_SEPARATOR

\* the values CSV_SEPARATOR is set to
ConfigSeparators == { ";", "," }

\* the column line of the raw fact file
FactColumnLine ==
    << << "I", "D" >>,
       << "T", "r", "a", "v", "e", "l", "M", "o", "t", "i", "v", "e", "s" >>,
       << "P", "o", "p", "u", "l", "a", "t", "i", "o", "n" >>,
       << "T", "r", "a", "v", "e", "l", "M", "o", "d", "e", "s" >>,
       << "M", "a", "r", "g", "i", "n", "s" >>,
       << "R", "e", "g", "i", "o", "n", "C", "h", "a", "r", "a", "c", "t", "e", "r", "i", "s", "t", "i", "c", "s" >>,
       << "P", "e", "r", "i", "o", "d", "s" >>,
       << "T", "r", "i", "p", "s", "_", "1" >>,
       << "D", "i", "s", "t", "a", "n", "c", "e", "T", "r", "a", "v", "e", "l", "l", "e", "d", "_", "2" >>,
       << "T", "i", "m", "e", "T", "r", "a", "v", "e", "l", "l", "e", "d", "_", "3" >>,
       << "T", "r", "i", "p", "s", "_", "4" >>,
       << "D", "i", "s", "t", "a", "n", "c", "e", "T", "r", "a", "v", "e", "l", "l", "e", "d", "_", "5" >>,
       << "T", "i", "m", "e", "T", "r", "a", "v", "e", "l", "l", "e", "d", "_", "6" >> >>

\* a line of the raw fact file as written
FactLine(fk, m) == << << "0" >> >> \o fk \o m

MetricsWritten == << << "1" >>, << "2" >>, << "." >>, << "4" >>, << >>, << "6" >> >>

\* the raw fact files: no file, or the column line and one or two rows
DataFiles(sep) ==
    { [ exists |-> FALSE ] }
    \cup
    { [ exists |-> TRUE, sep |-> sep, lines |-> << FactColumnLine >> \o rows ] :
        rows \in { << FactLine(<< A, A, A, A, A, B >>, MetricsWritten) >>,
                   << FactLine(<< A, A, A, A, A, A >>, MetricsWritten),
                      FactLine(<< B, << >>, A, A, A, A >>, MetricsWritten) >> } }

\* the metadata documents: no file, or three well-formed sections under plain
\* header lines
ExtractDocuments(sep) ==
    { d \in Documents(sep) :
        d.exists => /\ d.final_newline
                    /\ d.blank_header = 0
                    /\ \A k \in 1 .. 3 : d.sections[k].lines \in WellFormedBodies(sep) }

\* ETLPipeline.__init__ with a SourceConfig whose files are written with its
\* separator
InitExtract ==
    /\ PipelineIdle
    /\ TransformerIdle
    /\ ValidatorIdle
    /\ source_config \in [ SEPARATOR : ConfigSeparators ]
    /\ document \in ExtractDocuments(source_config.SEPARATOR)
    /\ data_file \in DataFiles(source_config.SEPARATOR)
    /\ read_sep = NULL
    /\ separator = ";"
    /\ content = NULL
    /\ sections = << >>
    /\ parse_i = 0
    /\ dataframes = << >>
    /\ reported = << >>
    /\ parser_pc = "none"

\* ETLPipeline.extract: parser = MetadataParser(self.source_config.METADATA_PATH)
ExtractParser ==
    /\ pc = "extract"
    /\ trace = << >>
    /\ trace' = << "extract" >>
    /\ separator' = ExtractParserSeparator(source_config)
    /\ content' = NULL
    /\ sections' = << >>
    /\ parse_i' = 0
    /\ dataframes' = << >>
    /\ reported' = << >>
    /\ parser_pc' = "new"
    /\ UNCHANGED << raw_dimensions, raw_facts, transformed_dimensions, transformed_facts,
                    store, open_txns, pc, load_i, dim_results, result, caller, outcome,
                    failed_stage, clock, run_store0, txn_log, upsert_store0, validated,
                    prev_run, fact_loads, failures, calls >>
    /\ UNCHANGED << document, transformer_vars, validator_vars, source_vars >>

\* ETLPipeline.extract: parser.parse() raised (no metadata file)
ExtractParseRaised ==
    /\ pc = "extract"
    /\ trace # << >>
    /\ parser_pc = "raised"
    /\ Raise("extract")
    /\ UNCHANGED << raw_dimensions, raw_facts, transformed_dimensions, transformed_facts,
                    store, open_txns, load_i, dim_results, result, caller, clock, trace,
                    run_store0, txn_log, upsert_store0, validated, prev_run, fact_loads,
                    failures, calls >>
    /\ UNCHANGED component_vars

\* ETLPipeline.extract after parser.parse() has returned: raw_dimensions is
\* set, then DataSource(self.source_config).read()
ExtractRead ==
    /\ pc = "extract"
    /\ trace # << >>
    /\ parser_pc = "returned"
    /\ raw_dimensions' = dataframes
    /\ read_sep' = source_config.SEPARATOR
    /\ LET read == DataSourceRead(RenderLines(data_file.lines, data_file.sep), source_config)
       IN  IF data_file.exists /\ read.error = "none"
           THEN /\ raw_facts' = Some(read.df)
                /\ Return("extract")
           ELSE /\ Raise("extract")
                /\ UNCHANGED raw_facts
    /\ UNCHANGED << transformed_dimensions, transformed_facts, store, open_txns, load_i,
                    dim_results, result, caller, clock, trace, run_store0, txn_log,
                    upsert_store0, validated, prev_run, fact_loads, failures, calls >>
    /\ UNCHANGED << parser_vars, transformer_vars, validator_vars, source_config, data_file >>

NextExtract ==
    \/ RunStart
    \/ ExtractParser
    \/ ReadContent
    \/ ParseLoop
    \/ ParseReturn
    \/ ExtractParseRaised
    \/ ExtractRead

SpecExtract == InitExtract /\ [][NextExtract]_vars

----------------------------------------------------------------------------

(* A DataValidator on its own *)

\* DataValidator.__init__
InitValidator ==
    /\ PipelineIdle
    /\ ParserIdle
    /\ TransformerIdle
    /\ SourceIdle
    /\ self_dimensions \in ValidatorDimensions
    /\ self_fact \in ValidatorFacts
    /\ validator_method = "none"
    /\ validate_i = 0
    /\ checked = << >>
    /\ violations = << >>
    /\ validator_pc = "new"

\* the caller calls validate_all, validate_dimensions or validate_fact
ValidatorCall ==
    /\ validator_pc = "new"
    /\ \E m \in { "validate_all", "validate_dimensions", "validate_fact" } :
          /\ validator_method' = m
          /\ validator_pc' = IF m = "validate_fact" THEN "fact" ELSE "dimensions"
          /\ validate_i' = IF m = "validate_fact" THEN validate_i ELSE 1
    /\ UNCHANGED << self_dimensions, self_fact, checked, violations, outside_validator >>

\* validate_dimensions: one pass of the loop
ValidateDimensionsLoop ==
    /\ validator_pc = "dimensions"
    /\ validate_i <= Len(self_dimensions)
    /\ checked' = Append(checked, self_dimensions[validate_i].name)
    /\ IF DimensionValid(self_dimensions[validate_i].df)
       THEN /\ validate_i' = validate_i + 1
            /\ UNCHANGED << violations, validator_pc >>
       ELSE /\ violations' = Append(violations,
                                    [ error |-> "SchemaError",
                                      table |-> self_dimensions[validate_i].name ])
            /\ validator_pc' = Reraise("dimensions")
            /\ validate_i' = IF Reraise("dimensions") = "raised"
                             THEN validate_i ELSE validate_i + 1
    /\ UNCHANGED << self_dimensions, self_fact, validator_method, outside_validator >>

\* validate_dimensions returns, to its caller or to validate_all
ValidateDimensionsReturn ==
    /\ validator_pc = "dimensions"
    /\ validate_i > Len(self_dimensions)
    /\ validator_pc' = IF validator_method = "validate_all" THEN "fact" ELSE "returned"
    /\ UNCHANGED << self_dimensions, self_fact, validator_method, validate_i, checked,
                    violations, outside_validator >>

\* validate_fact
ValidateFactCall ==
    /\ validator_pc = "fact"
    /\ IF ~FactSchemaBuilds(self_dimensions)
       THEN /\ violations' = Append(violations, [ error |-> "KeyError", table |-> TABLE_NAME ])
            /\ validator_pc' = "raised"
            /\ UNCHANGED checked
       ELSE /\ checked' = Append(checked, TABLE_NAME)
            /\ IF FactValid(self_dimensions, self_fact)
               THEN /\ validator_pc' = "returned"
                    /\ UNCHANGED violations
               ELSE /\ violations' = Append(violations,
                                            [ error |-> "SchemaError", table |-> TABLE_NAME ])
                    /\ validator_pc' = IF Reraise("fact") = "raised"
                                       THEN "raised" ELSE "returned"
    /\ UNCHANGED << self_dimensions, self_fact, validator_method, validate_i,
                    outside_validator >>

NextValidator ==
    ValidatorCall \/ ValidateDimensionsLoop \/ ValidateDimensionsReturn \/ ValidateFactCall

SpecValidator == InitValidator /\ [][NextValidator]_vars

----------------------------------------------------------------------------
(* A transformer on its own *)

\* the time when no call has been made
InitTransformer ==
    /\ PipelineIdle
    /\ ParserIdle
    /\ ValidatorIdle
    /\ SourceIdle
    /\ TransformerIdle

\* the tables a caller passes: any table at first, then the same rows in the
\* other order
Passable(kind) ==
    IF transform_calls = << >>
    THEN IF kind = "DimensionTransformer" THEN DimensionTables ELSE FactTables
    ELSE IF transform_calls[1].transformer = kind
         THEN { Reverse(transform_calls[1].input) }
         ELSE { }

\* the caller makes a table and passes it: DimensionTransformer.__init__ or
\* FactTransformer.__init__
TransformerNew ==
    /\ transformer_pc \in { "none", "returned", "raised" }
    /\ Len(transform_calls) < MaxTransforms
    /\ \E kind \in { "DimensionTransformer", "FactTransformer" } :
          \E df \in Passable(kind) :
             LET made == Append(heap, df)
                 copy == NewFrame(made, Len(made), df)
             IN  /\ heap' = copy.heap
                 /\ caller_df' = Len(made)
                 /\ passed' = df
                 /\ self_df' = copy.ref
                 /\ chain' = Chain(kind)
                 /\ transformer' = kind
    /\ transform_clock' = transform_clock + 1
    /\ transformer_pc' = "running"
    /\ UNCHANGED << transform_calls, outside_transformer >>

\* transform(): the next statement of the chain
TransformerStep ==
    /\ transformer_pc = "running"
    /\ chain # << >>
    /\ LET st == Head(chain)
           table == [ i \in DOMAIN heap[self_df] |->
                        RowAfter(transformer, st, heap[self_df][i], Timestamp(transform_clock)) ]
       IN  IF Raises(transformer, st, heap[self_df])
           THEN /\ transformer_pc' = "raised"
                /\ transform_calls' =
                      Append(transform_calls,
                             [ transformer |-> transformer, input |-> passed,
                               caller_df |-> caller_df, result |-> 0, output |-> << >> ])
                /\ UNCHANGED << heap, self_df, chain >>
           ELSE /\ IF Rebinds(transformer, st)
                   THEN LET new == NewFrame(heap, self_df, table)
                        IN  heap' = new.heap /\ self_df' = new.ref
                   ELSE heap' = [ heap EXCEPT ![self_df] = table ] /\ UNCHANGED self_df
                /\ chain' = Tail(chain)
                /\ UNCHANGED << transformer_pc, transform_calls >>
    /\ UNCHANGED << caller_df, passed, transformer, transform_clock, outside_transformer >>

\* transform() returns self.df
TransformerReturn ==
    /\ transformer_pc = "running"
    /\ chain = << >>
    /\ transformer_pc' = "returned"
    /\ transform_calls' =
          Append(transform_calls,
                 [ transformer |-> transformer, input |-> passed,
                   caller_df |-> caller_df, result |-> self_df, output |-> heap[self_df] ])
    /\ UNCHANGED << heap, caller_df, passed, self_df, chain, transformer,
                    transform_clock, outside_transformer >>

NextTransformer == TransformerNew \/ TransformerStep \/ TransformerReturn

SpecTransformer == InitTransformer /\ [][NextTransformer]_vars

----------------------------------------------------------------------------
(* Properties *)

StageOrder == << "extract", "transform", "validate", "load" >>

IsPrefix(p, q) == Len(p) <= Len(q) /\ SubSeq(q, 1, Len(p)) = p

Last(q) == q[Len(q)]

\* the last, and the first, record of df whose column col holds v
LastWith(df, col, v) ==
    df[CHOOSE i \in DOMAIN df :
          df[i][col] = v /\ \A j \in DOMAIN df : df[j][col] = v => j <= i]

FirstWith(df, col, v) ==
    df[CHOOSE i \in DOMAIN df :
          df[i][col] = v /\ \A j \in DOMAIN df : df[j][col] = v => j >= i]

ColumnValues(table, col) == { table[i][col] : i \in DOMAIN table }

\* the dimensions DimensionsLoader.load writes, and the table each goes to
LoadedNames == DictNames(transformed_dimensions) \cap DOMAIN TABLE_MAPPING

LoadedTables ==
    { TABLE_MAPPING[n] : n \in LoadedNames }
        \cup (IF transformed_facts.some THEN { TABLE_NAME } ELSE { })

\* the canonical table the load stage writes to target table t, and its query
LoadedDf(t) ==
    IF t = TABLE_NAME THEN transformed_facts.df
    ELSE DictValue(transformed_dimensions,
                   CHOOSE n \in LoadedNames : TABLE_MAPPING[n] = t)

QueryOf(t) == IF t = TABLE_NAME THEN FactQuery ELSE DimensionQuery(t)

\* target table t of store s after a complete upsert of its canonical table
Upserted(s, t) == ExecuteMany(s[t], QueryOf(t), LoadedDf(t), Len(LoadedDf(t)))

CommittedTables ==
    { txn_log[i].table : i \in { j \in DOMAIN txn_log : txn_log[j].op = "commit" } }

\* a store without its ingested_at columns
NoAudit(s) ==
    [ t \in Tables |->
        [ i \in DOMAIN s[t] |->
            [ c \in DOMAIN s[t][i] \ { "ingested_at" } |-> s[t][i][c] ] ] ]

\* C1: when FactLoader.load has committed the same canonical fact table twice
\* in a row, the target fact table holds the same set of fact_id values and
\* the same number of rows after the second load as after the first.
C1_SecondLoadSameRows ==
    Len(fact_loads) = 2 /\ fact_loads[1].df = fact_loads[2].df
        => /\ ColumnValues(fact_loads[2].after, "fact_id")
                = ColumnValues(fact_loads[1].after, "fact_id")
           /\ Len(fact_loads[2].after) = Len(fact_loads[1].after)

C1_Witness ==
    /\ Len(fact_loads) = 2
    /\ fact_loads[1].df = fact_loads[2].df
    /\ Len(fact_loads[1].df) > 1
    /\ Len(fact_loads[1].after) > Cardinality(ColumnValues(fact_loads[1].df, "fact_id"))

\* C2: when the fact upsert has run without error, every row whose fact_id
\* was in the target before keeps its fact_id and its six foreign keys, a row
\* inserted by this load keeps those of the first record that had its fact_id,
\* and the six metrics and ingested_at are those of the last record written
\* with that fact_id.
C2_ConflictOverwritesOnlyMetrics ==
    pc = "fact_exit" /\ ~TxnOn(TABLE_NAME).failed
        => LET old == store[TABLE_NAME]
               work == TxnOn(TABLE_NAME).work
               df == transformed_facts.df
               kept == << "fact_id" >> \o FK_COLUMNS
           IN  \A i \in DOMAIN work :
                 work[i].fact_id \in ColumnValues(df, "fact_id")
                    => /\ \A k \in DOMAIN kept :
                             work[i][kept[k]] =
                                IF i \in DOMAIN old
                                THEN old[i][kept[k]]
                                ELSE FirstWith(df, "fact_id", work[i].fact_id)[kept[k]]
                       /\ \A k \in DOMAIN FACT_UPDATE_COLUMNS :
                             work[i][FACT_UPDATE_COLUMNS[k]] =
                                LastWith(df, "fact_id", work[i].fact_id)[FACT_UPDATE_COLUMNS[k]]

\* a stored row meets a record with its fact_id, other foreign keys and other metrics
C2_Witness ==
    /\ pc = "fact_exit"
    /\ ~TxnOn(TABLE_NAME).failed
    /\ \E i \in DOMAIN store[TABLE_NAME], j \in DOMAIN transformed_facts.df :
          /\ store[TABLE_NAME][i].fact_id = transformed_facts.df[j].fact_id
          /\ store[TABLE_NAME][i].travel_motive_key # transformed_facts.df[j].travel_motive_key
          /\ store[TABLE_NAME][i].trips_daily # transformed_facts.df[j].trips_daily
          /\ TxnOn(TABLE_NAME).work[i].trips_daily = transformed_facts.df[j].trips_daily

\* C3: when the upsert of a dimension table has run without error, every
\* input row whose key was absent is a new row of the table, every stored row
\* whose key is in the input keeps its key and has the input row's title,
\* description and ingested_at, and every other stored row is unchanged.
C3_DimensionUpsert ==
    pc = "dim_exit" /\ ~TxnOn(TABLE_MAPPING[transformed_dimensions[load_i].name]).failed
        => LET table == TABLE_MAPPING[transformed_dimensions[load_i].name]
               old == store[table]
               work == TxnOn(table).work
               df == transformed_dimensions[load_i].df
               absent == { j \in DOMAIN df : df[j].key \notin ColumnValues(old, "key") }
           IN  /\ Len(work) = Len(old) + Cardinality(absent)
               /\ \A j \in absent :
                     \E i \in DOMAIN work \ DOMAIN old :
                        \A k \in DOMAIN DIMENSION_COLUMNS :
                           work[i][DIMENSION_COLUMNS[k]] = df[j][DIMENSION_COLUMNS[k]]
               /\ \A i \in DOMAIN old :
                     /\ work[i].key = old[i].key
                     /\ \A j \in DOMAIN df :
                           df[j].key = old[i].key
                              => /\ work[i].title = df[j].title
                                 /\ work[i].description = df[j].description
                                 /\ work[i].ingested_at = df[j].ingested_at
                     /\ old[i].key \notin ColumnValues(df, "key") => work[i] = old[i]

\* one upsert inserts a row, overwrites another and leaves a third alone
C3_Witness ==
    /\ pc = "dim_exit"
    /\ LET table == TABLE_MAPPING[transformed_dimensions[load_i].name]
           old == store[table]
           work == TxnOn(table).work
           df == transformed_dimensions[load_i].df
       IN  /\ ~TxnOn(table).failed
           /\ \E j \in DOMAIN df : df[j].key \notin ColumnValues(old, "key")
           /\ \E i \in DOMAIN old : old[i].key \notin ColumnValues(df, "key")
           /\ \E i \in DOMAIN old, j \in DOMAIN df :
                 /\ df[j].key = old[i].key
                 /\ df[j].description # old[i].description
                 /\ work[i].description = df[j].description

\* C4: when the write of a table fails (the connection, a row's statement or
\* the commit), the target is exactly as it was when that upsert call began
\* and the error is raised to the caller; and no row of an upsert is in the
\* target while its transaction is still open.
C4_UpsertAtomic ==
    /\ open_txns # { } => store = upsert_store0
    /\ failed_stage = "load"
          => /\ store = upsert_store0
             /\ outcome = "raised"
             /\ pc = "idle"
             /\ ~result.returned

\* the failed upsert had written rows in its transaction before it failed
C4_Witness ==
    /\ failed_stage = "load"
    /\ txn_log # << >>
    /\ Last(txn_log).op = "rollback"
    /\ Last(txn_log).dirty

\* C5: when the load stage of a run fails, every table whose upsert committed
\* earlier in the run holds the rows this run wrote to it, every other table
\* is as it was before the run, and the error reaches the caller of run().
C5_EarlierCommitsStay ==
    caller = "run" /\ failed_stage = "load"
        => /\ \A t \in Tables :
                 store[t] = IF t \in CommittedTables
                            THEN Upserted(run_store0, t)
                            ELSE run_store0[t]
           /\ TABLE_NAME \notin CommittedTables
           /\ outcome = "raised"
           /\ ~result.returned

\* a later table failed after earlier tables were changed by their commits
C5_Witness ==
    /\ caller = "run"
    /\ failed_stage = "load"
    /\ \E t \in CommittedTables : store[t] # run_store0[t]
    /\ Last(txn_log).op = "rollback"
    /\ Last(txn_log).table = TABLE_NAME

\* C6: a run that completes after a run that failed in its load stage, both
\* on the same source input, leaves the store (ignoring ingested_at) as one
\* complete load of the same tables would have left the store the failed run
\* started from.
C6_SafeRerun ==
    (/\ caller = "run"
     /\ outcome = "returned"
     /\ prev_run.kind = "run"
     /\ prev_run.failed_stage = "load"
     /\ prev_run.raw_dimensions = raw_dimensions
     /\ prev_run.raw_facts = raw_facts)
        => NoAudit(store) =
              NoAudit([ t \in Tables |->
                         IF t \in LoadedTables
                         THEN Upserted(prev_run.store0, t)
                         ELSE prev_run.store0[t] ])

\* the failed run had committed some of its tables
C6_Witness ==
    /\ caller = "run"
    /\ outcome = "returned"
    /\ prev_run.kind = "run"
    /\ prev_run.failed_stage = "load"
    /\ prev_run.raw_dimensions = raw_dimensions
    /\ prev_run.raw_facts = raw_facts
    /\ prev_run.store0 # run_store0

\* C7: when the validate stage of a run fails, the store is as it was before
\* the run and the load stage has opened no transaction.
C7_NoLoadAfterFailedValidation ==
    caller = "run" /\ failed_stage = "validate"
        => /\ store = run_store0
           /\ txn_log = << >>
           /\ open_txns = { }
           /\ outcome = "raised"

\* validation failed on a dimension table
C7_Witness ==
    /\ caller = "run"
    /\ failed_stage = "validate"
    /\ outcome = "raised"
    /\ ~ValidateDimensions(transformed_dimensions)

\* C8: in a run the stages are entered in the order extract, transform,
\* validate, load, each at most once; once a stage has raised, control is
\* back at the caller with the error and no result; a result is returned only
\* after all four stages, the fact commit included.
C8_RunStagesInOrder ==
    caller = "run"
        => /\ IsPrefix(trace, StageOrder)
           /\ failed_stage # "none"
                 => /\ outcome = "raised"
                    /\ pc = "idle"
                    /\ Last(trace) = failed_stage
                    /\ ~result.returned
           /\ result.returned
                 => /\ outcome = "returned"
                    /\ trace = StageOrder
                    /\ Last(txn_log) = Event("commit", TABLE_NAME, Last(txn_log).dirty)
           /\ outcome = "returned" => result.returned

C8_Witness ==
    /\ caller = "run"
    /\ outcome = "raised"
    /\ failed_stage = "extract"
    /\ prev_run.outcome = "returned"

\* C9: load never writes rows unless validate has succeeded on the tables it
\* writes, whatever stages the caller calls on the pipeline object.
C9_LoadWritesOnlyValidated ==
    CommittedTables # { }
        => /\ validated.ok
           /\ validated.dimensions = transformed_dimensions
           /\ validated.fact = transformed_facts

\* C10: at most one transaction is open at any time and none outside the load
\* stage; the transactions of a load stage are opened one after the other,
\* each closed by a commit or a rollback before the next begins, one per
\* table, the dimensions in their order and fact_mobility only after every
\* dimension has committed.
C10_OneTransactionAtATime ==
    /\ Cardinality(open_txns) <= 1
    /\ pc \notin { "dim_execute", "dim_exit", "fact_execute", "fact_exit" } => open_txns = { }
    /\ \A i \in DOMAIN txn_log :
          IF i % 2 = 1
          THEN /\ txn_log[i].op = "begin"
               /\ \A j \in 1 .. i - 1 : j % 2 = 0 => txn_log[j].op = "commit"
               /\ \A j \in 1 .. i - 1 : txn_log[j].table # txn_log[i].table
               /\ i = Len(txn_log) => { t.table : t \in open_txns } = { txn_log[i].table }
          ELSE /\ txn_log[i].op \in { "commit", "rollback" }
               /\ txn_log[i].table = txn_log[i - 1].table
               /\ i = Len(txn_log) => open_txns = { }
    /\ \A i \in DOMAIN txn_log :
          txn_log[i].table = TABLE_NAME
             => \A n \in LoadedNames :
                   \E j \in 1 .. i - 1 : txn_log[j] = Event("commit", TABLE_MAPPING[n], txn_log[j].dirty)

\* the fact transaction is open after six dimension transactions were committed
C10_Witness ==
    /\ pc = "fact_execute"
    /\ Len(txn_log) = 13
    /\ Cardinality(open_txns) = 1

\* the places of the document's sections whose body is one of `bodies`
SectionsAmong(bodies) == { k \in DOMAIN document.sections : document.sections[k].lines \in bodies }

SectionLabels(places) == { Label(document.sections[k].name) : k \in places }

\* C11: parse does not raise on a document it can read, and when it has
\* returned from a document with one malformed section and otherwise
\* well-formed sections, the result holds exactly the well-formed sections
\* and exactly the malformed section's failure was reported.
C11_MalformedSectionSkipped ==
    /\ document.exists => parser_pc # "raised"
    /\ parser_pc = "returned"
        /\ Cardinality(SectionsAmong(MalformedBodies)) = 1
        /\ SectionsAmong(RaggedBodies) = { }
          => /\ DictNames(dataframes) = SectionLabels(SectionsAmong(WellFormedBodies(separator)))
             /\ Range(reported) = SectionLabels(SectionsAmong(MalformedBodies))
             /\ Len(reported) = 1

\* the rows of table whose column col holds v
RowsWith(table, col, v) == { i \in DOMAIN table : table[i][col] = v }

\* the transformed tables have a fault other than a repeated fact row: a
\* table is missing, a dimension has a null or repeated key or a null title,
\* or a fact row has a foreign key its dimension does not hold
OtherFault ==
    \/ ~transformed_facts.some
    \/ ~(DIMENSION_NAMES \subseteq DictNames(transformed_dimensions))
    \/ \E d \in DOMAIN transformed_dimensions :
          LET df == transformed_dimensions[d].df
          IN  \/ NULL \in ColumnValues(df, "key") \cup ColumnValues(df, "title")
              \/ Cardinality(ColumnValues(df, "key")) < Len(df)
    \/ \E i \in DOMAIN transformed_facts.df, c \in Range(FK_COLUMNS) :
          transformed_facts.df[i][c]
             \notin ColumnValues(DictValue(transformed_dimensions, FK_DIMENSION[c]), "key")

\* C14: the target fact table never holds two rows with one fact_id; a
\* committed fact load leaves, for every fact_id it wrote, exactly one row,
\* which carries the metrics and ingested_at of the last row written with
\* that fact_id; and validation does not fail on a fact table for repeating
\* a row's foreign keys.
C14_OneRowPerFactId ==
    /\ Cardinality(ColumnValues(store[TABLE_NAME], "fact_id")) = Len(store[TABLE_NAME])
    /\ \A k \in DOMAIN fact_loads :
          \A v \in ColumnValues(fact_loads[k].df, "fact_id") :
             /\ Cardinality(RowsWith(fact_loads[k].after, "fact_id", v)) = 1
             /\ \A i \in RowsWith(fact_loads[k].after, "fact_id", v) :
                   \A c \in Range(METRIC_COLUMNS) \cup { "ingested_at" } :
                      fact_loads[k].after[i][c] = LastWith(fact_loads[k].df, "fact_id", v)[c]
    /\ failed_stage = "validate" => OtherFault

\* a fact table with two rows of the same foreign keys and other metrics has
\* passed validation and was loaded, and the store holds one row for them
C14_Witness ==
    /\ validated.ok
    /\ fact_loads # << >>
    /\ Last(fact_loads).df = validated.fact.df
    /\ Last(fact_loads).after = store[TABLE_NAME]
    /\ \E i \in DOMAIN validated.fact.df, j \in DOMAIN validated.fact.df :
          /\ i < j
          /\ \A c \in Range(FK_COLUMNS) : validated.fact.df[i][c] = validated.fact.df[j][c]
          /\ validated.fact.df[i].trips_daily # validated.fact.df[j].trips_daily
          /\ \E r \in DOMAIN store[TABLE_NAME] :
                /\ RowsWith(store[TABLE_NAME], "fact_id", validated.fact.df[j].fact_id) = { r }
                /\ store[TABLE_NAME][r].trips_daily = validated.fact.df[j].trips_daily

----------------------------------------------------------------------------
(* The transformers *)

\* a text without the whitespace around it: what lies between its first and
\* its last character that is no whitespace
TrimmedText(s) ==
    LET inked == { i \in DOMAIN s : s[i] \notin Whitespace }
    IN  IF inked = { } THEN << >>
        ELSE SubSeq(s, CHOOSE i \in inked : \A j \in inked : i <= j,
                       CHOOSE i \in inked : \A j \in inked : j <= i)

\* a foreign-key value after trimming; a value that is no text counts as the
\* text str() gives it
Trimmed(v) == TrimmedText(AsStr(v))

\* the raw column a canonical fact column is taken from
SourceColumn(c) == CHOOSE k \in DOMAIN FACT_COLUMN_MAPPING : FACT_COLUMN_MAPPING[k] = c

\* the calls of FactTransformer.transform that have returned
FactCalls ==
    { k \in DOMAIN transform_calls :
        /\ transform_calls[k].transformer = "FactTransformer"
        /\ transform_calls[k].result # 0 }

\* the raw rows r and s have the same foreign keys once these are trimmed
SameTrimmedKeys(r, s) ==
    \A c \in Range(FK_COLUMNS) : Trimmed(r[SourceColumn(c)]) = Trimmed(s[SourceColumn(c)])

\* the canonical rows r and s differ in a metric
OtherMetrics(r, s) == \E c \in Range(METRIC_COLUMNS) : r[c] # s[c]

\* C12: two raw fact rows whose foreign keys are equal after trimming get the
\* same fact_id and the same canonical foreign keys, whether they were
\* transformed in the same call or in two calls, whatever their metrics.
C12_FactIdOfTrimmedKeys ==
    \A k \in FactCalls, l \in FactCalls :
       \A i \in DOMAIN transform_calls[k].input, j \in DOMAIN transform_calls[l].input :
          SameTrimmedKeys(transform_calls[k].input[i], transform_calls[l].input[j])
            => /\ transform_calls[k].output[i].fact_id = transform_calls[l].output[j].fact_id
               /\ \A c \in Range(FK_COLUMNS) :
                     transform_calls[k].output[i][c] = transform_calls[l].output[j][c]

\* two calls have returned; a row written with whitespace around a key and a
\* row written without, with other metrics, got one fact_id, in one call and
\* across the two calls
C12_Witness ==
    /\ FactCalls = { 1, 2 }
    /\ \E i \in DOMAIN transform_calls[1].input, j \in DOMAIN transform_calls[2].input :
          /\ \E c \in Range(FK_COLUMNS) :
                transform_calls[1].input[i][SourceColumn(c)]
                  # transform_calls[2].input[j][SourceColumn(c)]
          /\ SameTrimmedKeys(transform_calls[1].input[i], transform_calls[2].input[j])
          /\ OtherMetrics(transform_calls[1].output[i], transform_calls[2].output[j])
          /\ transform_calls[1].output[i].fact_id = transform_calls[2].output[j].fact_id
    /\ \E i \in DOMAIN transform_calls[1].input, j \in DOMAIN transform_calls[1].input :
          /\ \E c \in Range(FK_COLUMNS) :
                transform_calls[1].input[i][SourceColumn(c)]
                  # transform_calls[1].input[j][SourceColumn(c)]
          /\ SameTrimmedKeys(transform_calls[1].input[i], transform_calls[1].input[j])
          /\ OtherMetrics(transform_calls[1].output[i], transform_calls[1].output[j])
          /\ transform_calls[1].output[i].fact_id = transform_calls[1].output[j].fact_id

\* the foreign-key columns in which the raw rows r and s differ after trimming
KeysChanged(r, s) ==
    { c \in Range(FK_COLUMNS) : Trimmed(r[SourceColumn(c)]) # Trimmed(s[SourceColumn(c)]) }

\* the string that was hashed into a fact_id
Hashed(fact_id) == Tail(fact_id)

\* C13: two raw fact rows that differ, after trimming, in exactly one of the
\* six foreign keys have different hashed strings and different fact_ids.
C13_OneKeyChangesFactId ==
    \A k \in FactCalls, l \in FactCalls :
       \A i \in DOMAIN transform_calls[k].input, j \in DOMAIN transform_calls[l].input :
          Cardinality(KeysChanged(transform_calls[k].input[i], transform_calls[l].input[j])) = 1
            => /\ Hashed(transform_calls[k].output[i].fact_id)
                    # Hashed(transform_calls[l].output[j].fact_id)
               /\ transform_calls[k].output[i].fact_id # transform_calls[l].output[j].fact_id

\* a call has returned a table of two rows that differ in the last foreign
\* key only, by a value holding the pipe, and their fact_ids differ
C13_Witness ==
    \E k \in FactCalls :
       \E i \in DOMAIN transform_calls[k].input, j \in DOMAIN transform_calls[k].input :
          /\ KeysChanged(transform_calls[k].input[i], transform_calls[k].input[j]) = { "period_key" }
          /\ transform_calls[k].input[j].Periods = << "a", "|", "a" >>
          /\ transform_calls[k].output[i].fact_id # transform_calls[k].output[j].fact_id

\* pd.isna
IsNull(v) == v \in { NULL, NaN }

\* a text that reads as a number: one or more decimal digits
Numeral(v) == ~IsNull(v) /\ v # << >> /\ \A i \in DOMAIN v : v[i] \in Digits

DigitsInOrder == << "0", "1", "2", "3", "4", "5", "6", "7", "8", "9" >>

\* the number a numeral stands for
RECURSIVE NumberOf(_)
NumberOf(v) ==
    IF v = << >> THEN 0
    ELSE 10 * NumberOf(SubSeq(v, 1, Len(v) - 1))
           + (CHOOSE n \in 0..9 : DigitsInOrder[n + 1] = v[Len(v)])

\* the calls of FactTransformer.transform on a table that has every column
FullFactCalls ==
    { k \in DOMAIN transform_calls :
        /\ transform_calls[k].transformer = "FactTransformer"
        /\ \A i \in DOMAIN transform_calls[k].input :
              DOMAIN FACT_COLUMN_MAPPING \subseteq DOMAIN transform_calls[k].input[i] }

\* C15: FactTransformer.transform does not raise on a table that has its
\* columns, whatever the metric values; a metric that is '.', missing or no
\* numeral comes out null, and a numeral comes out as a number of the same
\* value.
C15_MetricsNullOrNumber ==
    \A k \in FullFactCalls :
       /\ transform_calls[k].result # 0
       /\ \A i \in DOMAIN transform_calls[k].input, c \in Range(METRIC_COLUMNS) :
             LET raw == transform_calls[k].input[i][SourceColumn(c)]
                 out == transform_calls[k].output[i][c]
             IN  IF Numeral(raw)
                 THEN Numeral(out) /\ NumberOf(out) = NumberOf(raw)
                 ELSE IsNull(out)

\* a returned row had the metrics 07, '.', a missing one and x: they came out
\* as 7 and three nulls
C15_Witness ==
    \E k \in FullFactCalls :
       \E i \in DOMAIN transform_calls[k].input :
          /\ transform_calls[k].input[i].Trips_1 = << "0", "7" >>
          /\ transform_calls[k].output[i].trips_daily = << "7" >>
          /\ transform_calls[k].input[i].DistanceTravelled_2 = << "." >>
          /\ IsNull(transform_calls[k].output[i].distance_daily)
          /\ transform_calls[k].input[i].TimeTravelled_3 = NaN
          /\ IsNull(transform_calls[k].output[i].time_daily)
          /\ transform_calls[k].input[i].Trips_4 = << "x" >>
          /\ IsNull(transform_calls[k].output[i].trips_yearly)

\* the calls of DimensionTransformer.transform that have returned
DimensionCalls ==
    { k \in DOMAIN transform_calls :
        /\ transform_calls[k].transformer = "DimensionTransformer"
        /\ transform_calls[k].result # 0 }

\* a raw value that stands for nothing: missing, empty or all whitespace, or
\* the token nan or None once trimmed
Nothing(v) ==
    \/ IsNull(v)
    \/ \A i \in DOMAIN v : v[i] \in Whitespace
    \/ TrimmedText(v) \in { << "n", "a", "n" >>, << "N", "o", "n", "e" >> }

\* C16: DimensionTransformer.transform returns null for every key, title or
\* description that is missing, empty, all whitespace or, once trimmed, the
\* token nan or None, and returns every other value as its text without the
\* whitespace around it.
C16_TextNullOrTrimmed ==
    \A k \in DimensionCalls :
       \A i \in DOMAIN transform_calls[k].input, c \in DOMAIN DIM_COLUMN_MAPPING :
          LET raw == transform_calls[k].input[i][c]
              out == transform_calls[k].output[i][DIM_COLUMN_MAPPING[c]]
          IN  IF Nothing(raw) THEN out = NULL ELSE out = TrimmedText(raw)

\* a returned row had a key with whitespace around it, a title of two blanks
\* and a description of one: they came out as the bare key and two nulls
C16_Witness ==
    \E k \in DimensionCalls :
       \E i \in DOMAIN transform_calls[k].input :
          /\ transform_calls[k].input[i].Key = << " ", "a", " " >>
          /\ transform_calls[k].output[i].key = << "a" >>
          /\ transform_calls[k].input[i].Title = << " ", " " >>
          /\ transform_calls[k].output[i].title = NULL
          /\ transform_calls[k].input[i].Description = << " " >>
          /\ transform_calls[k].output[i].description = NULL

\* C17: while a transformer works on a table and after transform() has
\* returned or raised, the caller's table object holds what it held when it
\* was passed, and the table transform() returns is another object.
C17_InputNotMutated ==
    /\ caller_df # 0 => heap[caller_df] = passed
    /\ \A k \in DOMAIN transform_calls :
          /\ heap[transform_calls[k].caller_df] = transform_calls[k].input
          /\ transform_calls[k].result # transform_calls[k].caller_df

\* a DimensionTransformer has returned a table that differs from the one it
\* was passed, which is as it was
C17_Witness ==
    \E k \in DimensionCalls :
       /\ transform_calls[k].output # transform_calls[k].input
       /\ transform_calls[k].input[1].Key = << " ", "a", " " >>
       /\ heap[transform_calls[k].caller_df] = transform_calls[k].input
       /\ heap[transform_calls[k].result] = transform_calls[k].output
       /\ transform_calls[k].result # transform_calls[k].caller_df

----------------------------------------------------------------------------
(* The validator *)

\* the places of self_dimensions whose table was checked
CheckedDimensions == { i \in DOMAIN checked : checked[i] # TABLE_NAME }

\* the table at place i was checked and rejected, or accepted
Rejected(i) ==
    /\ i \in CheckedDimensions
    /\ \E v \in DOMAIN violations :
          violations[v] = [ error |-> "SchemaError", table |-> self_dimensions[i].name ]

Accepted(i) == i \in CheckedDimensions /\ ~Rejected(i)

\* every row of df has the column col
HasColumn(df, col) == \A i \in DOMAIN df : col \in DOMAIN df[i]

\* the column is there and holds no null
NoNulls(df, col) == HasColumn(df, col) /\ \A i \in DOMAIN df : ~IsNull(df[i][col])

\* the key column is there and no key comes twice
KeysUnique(df) ==
    HasColumn(df, "key") /\ Cardinality({ df[i].key : i \in DOMAIN df }) = Len(df)

\* unique non-null keys and non-null titles
KeysAndTitlesSound(df) == KeysUnique(df) /\ NoNulls(df, "key") /\ NoNulls(df, "title")

\* C18 as stated: a checked dimension table is rejected when it has a
\* repeated key, a null key, a null title or no key or title column, and is
\* accepted whenever its keys are unique and non-null and its titles non-null.
C18_DimensionAcceptedOnKeysAndTitles ==
    \A i \in CheckedDimensions :
       IF KeysAndTitlesSound(self_dimensions[i].df) THEN Accepted(i) ELSE Rejected(i)

\* C18, amended: a checked dimension table is rejected when it has a repeated
\* key, a null key, a null title or no key or title column, and is accepted
\* when its keys are unique and non-null, its titles non-null, it has a
\* description column and its ingested_at column is there without a null.
C18_DimensionValidation ==
    \A i \in CheckedDimensions :
       /\ ~KeysAndTitlesSound(self_dimensions[i].df) => Rejected(i)
       /\ ( /\ KeysAndTitlesSound(self_dimensions[i].df)
            /\ HasColumn(self_dimensions[i].df, "description")
            /\ NoNulls(self_dimensions[i].df, "ingested_at") )
          => Accepted(i)

\* validate_dimensions accepted a table with a null description and rejected
\* the next, which repeats a key
C18_Witness ==
    \E i \in CheckedDimensions :
       /\ Accepted(i)
       /\ \E r \in DOMAIN self_dimensions[i].df : self_dimensions[i].df[r].description = NULL
       /\ Rejected(i + 1)
       /\ self_dimensions[i + 1].df = TableRepeatedKey

\* the fact table was checked against fact_schema, and it passed or failed
FactChecked == TABLE_NAME \in Range(checked)

FactRejected ==
    FactChecked /\ [ error |-> "SchemaError", table |-> TABLE_NAME ] \in Range(violations)

FactAccepted == FactChecked /\ ~FactRejected

\* the keys the dimension of foreign-key column c holds (a null is no key)
KeysOf(c) ==
    { v \in ColumnValues(DictValue(self_dimensions, FK_DIMENSION[c]), "key") : ~IsNull(v) }

\* the foreign keys of the fact table that their dimension does not hold
AbsentKeys ==
    { p \in (DOMAIN self_fact) \X Range(FK_COLUMNS) : self_fact[p[1]][p[2]] \notin KeysOf(p[2]) }

\* the fact table with the foreign key at p replaced by v
Replaced(p, v) == [ self_fact EXCEPT ![p[1]][p[2]] = v ]

\* C19: a fact table that was checked passed only if every foreign key of
\* every row is held by its dimension's key column; with one foreign key of
\* one row absent the table failed, and the table with that value replaced
\* by any key the dimension holds passes; rows referencing one key pass.
C19_ForeignKeysAreMembers ==
    FactChecked
      => /\ FactAccepted => AbsentKeys = { }
         /\ (Cardinality(AbsentKeys) = 1 /\ ~IsNull(self_fact[1].fact_id))
              => ( /\ FactRejected
                   /\ \A p \in AbsentKeys :
                         \A v \in KeysOf(p[2]) : FactValid(self_dimensions, Replaced(p, v)) )
         /\ (AbsentKeys = { } /\ ~IsNull(self_fact[1].fact_id)) => FactAccepted

\* a fact table was rejected for one key of one row that the dimension of
\* periods, which holds two keys, does not hold
C19_Witness ==
    /\ FactRejected
    /\ \E i \in DOMAIN self_fact : AbsentKeys = { << i, "period_key" >> }
    /\ Cardinality(KeysOf("period_key")) = 2
    /\ \E i \in DOMAIN self_fact, j \in DOMAIN self_fact :
          i # j /\ self_fact[i].region_key = self_fact[j].region_key

\* the tables validate_all has to check, in its order: the dimensions as the
\* dict holds them, then the fact table
TablesInOrder ==
    [ i \in 1..(Len(self_dimensions) + 1) |->
        IF i <= Len(self_dimensions) THEN self_dimensions[i].name ELSE TABLE_NAME ]

\* the dimension table at place i breaks no rule of dimension_schema
DimensionSound(i) ==
    /\ KeysAndTitlesSound(self_dimensions[i].df)
    /\ HasColumn(self_dimensions[i].df, "description")
    /\ NoNulls(self_dimensions[i].df, "ingested_at")

\* C20: in validate_all the tables are checked in the order of the
\* dimensions, then the fact table; at most one error is raised; a violation
\* is about the last table checked, every table checked before it broke no
\* rule, and nothing is checked after it; the fact table is checked only
\* when every dimension table was checked and broke no rule.
C20_ValidateAllFailFast ==
    validator_method = "validate_all"
      => /\ IsPrefix(checked, TablesInOrder)
         /\ Len(violations) <= 1
         /\ violations # << >>
               => /\ validator_pc = "raised"
                  /\ violations[1].error = "SchemaError" => violations[1].table = Last(checked)
         /\ \A i \in CheckedDimensions :
               ~DimensionSound(i) => i = Len(checked) /\ violations # << >>
         /\ FactChecked
               => /\ Len(checked) = Len(self_dimensions) + 1
                  /\ \A i \in DOMAIN self_dimensions : DimensionSound(i)

\* validate_all raised on the first of two faulty dimension tables: the
\* second and the fact table were not checked
C20_Witness ==
    /\ validator_method = "validate_all"
    /\ validator_pc = "raised"
    /\ Len(violations) = 1
    /\ Len(checked) > 1
    /\ ~DimensionSound(Len(checked))
    /\ \E j \in DOMAIN self_dimensions : j > Len(checked) /\ ~DimensionSound(j)
    /\ ~FactChecked

----------------------------------------------------------------------------
(* The result of a run *)

\* the rows of the canonical dimension tables the load stage writes
RECURSIVE RowsOfLoaded(_)
RowsOfLoaded(d) ==
    IF d = << >> THEN 0
    ELSE (IF Head(d).name \in DOMAIN TABLE_MAPPING THEN Len(Head(d).df) ELSE 0)
            + RowsOfLoaded(Tail(d))

\* C21: the result of a completed run has one count per dimension table the
\* run committed, the number of rows of the canonical table written to it,
\* facts_loaded is the number of rows of the canonical fact table, and
\* total_dimensions is the sum of the dimension counts.
C21_ResultCounts ==
    caller = "run" /\ result.returned
        => /\ DictNames(result.dimensions_loaded) = CommittedTables \ { TABLE_NAME }
           /\ Len(result.dimensions_loaded) = Cardinality(LoadedNames)
           /\ \A n \in LoadedNames :
                 DictValue(result.dimensions_loaded, TABLE_MAPPING[n])
                    = Len(DictValue(transformed_dimensions, n))
           /\ result.facts_loaded = Len(transformed_facts.df)
           /\ total_dimensions(result) = RowsOfLoaded(transformed_dimensions)

\* a run returned counts that differ from table to table and from the number
\* of rows the target tables hold
C21_Witness ==
    /\ caller = "run"
    /\ result.returned
    /\ Len(result.dimensions_loaded) = 6
    /\ \E i, j \in DOMAIN result.dimensions_loaded :
          result.dimensions_loaded[i].df # result.dimensions_loaded[j].df
    /\ \E i \in DOMAIN result.dimensions_loaded :
          Len(store[result.dimensions_loaded[i].name]) # result.dimensions_loaded[i].df
    /\ result.facts_loaded # Len(store[TABLE_NAME])
    /\ total_dimensions(result) > 6

----------------------------------------------------------------------------
(* The extract stage *)

\* C22: in a pipeline run the metadata document and the raw fact dataset are
\* both parsed with the configured separator: the parser extract() constructs
\* has SourceConfig.SEPARATOR for its separator, and so has the read_csv call
\* of DataSource.read.
C22_ParsedWithConfiguredSeparator ==
    /\ parser_pc # "none" => separator = source_config.SEPARATOR
    /\ read_sep # NULL => read_sep = source_config.SEPARATOR

\* C23: when the metadata document or the raw fact file is missing, run()
\* fails in extract with the error at its caller: no later stage is entered
\* (nothing is transformed, validated or loaded), no transaction is opened and
\* the store is as it was when the run began.
C23_MissingSourceAborts ==
    caller = "run" /\ failed_stage = "extract"
        => /\ outcome = "raised"
           /\ pc = "idle"
           /\ trace = << "extract" >>
           /\ ~result.returned
           /\ txn_log = << >>
           /\ open_txns = { }
           /\ store = run_store0

\* the raw fact file is missing in a run on a store an earlier run has
\* written to: the metadata was parsed anew, the facts are the earlier ones
C23_Witness ==
    /\ caller = "run"
    /\ failed_stage = "extract"
    /\ prev_run.outcome = "returned"
    /\ store # EmptyStore
    /\ raw_dimensions # prev_run.raw_dimensions
    /\ raw_facts = prev_run.raw_facts
    /\ transformed_facts.some

----------------------------------------------------------------------------
(* The load stage *)

\* the names of the dict handed to DimensionsLoader.load that are section
\* names of a dimension
KnownNames == DictNames(transformed_dimensions) \cap DIMENSION_NAMES

\* C24: the load stage opens transactions on, counts and changes only the
\* dim_ tables mapped from the fixed section names it is handed and
\* fact_mobility; a table under another name is skipped: no transaction is
\* opened for it and the returned counts do not hold it.
C24_LoadWritesFixedTables ==
    /\ { txn_log[i].table : i \in DOMAIN txn_log } \ { TABLE_NAME }
          \subseteq { TABLE_MAPPING[n] : n \in KnownNames }
    /\ DictNames(dim_results) \subseteq { TABLE_MAPPING[n] : n \in KnownNames }
    /\ \A t \in Tables : store[t] # run_store0[t] => t \in CommittedTables
    /\ pc \in { "dim_execute", "dim_exit" }
          => /\ transformed_dimensions[load_i].name \in DIMENSION_NAMES
             /\ { t.table : t \in open_txns }
                   = { TABLE_MAPPING[transformed_dimensions[load_i].name] }
    /\ result.returned
          => /\ DictNames(result.dimensions_loaded) = { TABLE_MAPPING[n] : n \in KnownNames }
             /\ Len(result.dimensions_loaded) = Cardinality(KnownNames)

\* a load returned after it had skipped a table that came between two
\* dimensions, both of which it wrote
C24_Witness ==
    /\ result.returned
    /\ \E i, j, k \in DOMAIN transformed_dimensions :
          /\ i < j /\ j < k
          /\ transformed_dimensions[j].name \notin DIMENSION_NAMES
          /\ store[TABLE_MAPPING[transformed_dimensions[i].name]] # run_store0[TABLE_MAPPING[transformed_dimensions[i].name]]
          /\ store[TABLE_MAPPING[transformed_dimensions[k].name]] # run_store0[TABLE_MAPPING[transformed_dimensions[k].name]]
    /\ Len(result.dimensions_loaded) = 2
    /\ Len(txn_log) = 6

----------------------------------------------------------------------------
(* The parser's sections *)

\* what read_csv reads from section k's own lines: its header line and the
\* lines under it, up to the next header line or the end of the document
OwnSection(k) ==
    ReadCsv(StripBlock(RenderSection(document, k, document.sep)), separator)

SectionLabel(k) == Label(document.sections[k].name)

\* section k is in the result with the rows of its own lines
OwnRows(k) ==
    SectionLabel(k) \in DictNames(dataframes)
        => /\ OwnSection(k).error = "none"
           /\ DictValue(dataframes, SectionLabel(k)) = OwnSection(k).df

\* header k is a line with blanks after the quoted name, or the last line of
\* a document that does not end in a newline
OddHeader(k) ==
    \/ document.blank_header = k
    \/ k = 3 /\ ~document.final_newline /\ document.sections[3].lines = << >>

\* C25 (on documents whose header lines all end right after the closing
\* quote): the dataset returned for a section holds exactly the data rows
\* between its header line and the next header line (or the end of the
\* document), also when a data row holds a quoted field whose text is a
\* section name.
C25_SectionRowsBetweenHeaders ==
    parser_pc = "returned" /\ (\A h \in 1 .. 3 : ~OddHeader(h))
        => \A k \in 1 .. 3 : OwnRows(k)

\* C26: every line that is a quoted name, blanks after it or no newline after
\* it included, is taken for a section header; each header gives a section of
\* the result or a reported failure; and such a header leaves the rows of the
\* section before it as they are.
C26_EveryHeaderIsASection ==
    parser_pc = "returned"
        => /\ sections = [ k \in 1 .. 3 |-> document.sections[k].name ]
           /\ \A k \in 1 .. 3 :
                 SectionLabel(k) \in DictNames(dataframes) \cup Range(reported)
           /\ \A k \in 2 .. 3 :
                 OddHeader(k) /\ document.sections[k - 1].lines \in { BodyRows, BodyNoRows }
                    => /\ SectionLabel(k - 1) \in DictNames(dataframes)
                       /\ OwnRows(k - 1)

----------------------------------------------------------------------------
(* Fact identity *)

\* rows r and s differ in a foreign key
OtherKeys(r, s) == \E k \in DOMAIN FK_COLUMNS : r[FK_COLUMNS[k]] # s[FK_COLUMNS[k]]

\* C27: two canonical fact rows with different foreign keys never have the
\* same fact_id, also when a key holds the pipe character, and after the load
\* of a run each of them is a row of the target table.
C27_DistinctKeysDistinctFactIds ==
    transformed_facts.some
        => LET df == transformed_facts.df
           IN  /\ \A i, j \in DOMAIN df :
                     OtherKeys(df[i], df[j]) => df[i].fact_id # df[j].fact_id
               /\ caller = "run" /\ result.returned
                     => \A i \in DOMAIN df :
                           \E n \in DOMAIN store[TABLE_NAME] :
                              ~OtherKeys(store[TABLE_NAME][n], df[i])

----------------------------------------------------------------------------
(* Runs and the sections they extract *)

\* the dimension sections the current run's extract got from the parser
ExtractedDimensions == DictNames(raw_dimensions) \cap DIMENSION_NAMES

\* C28: when a dimension section is missing from what the parser returned to
\* a run, the run does not enter the load stage and writes no table, and once
\* it has entered the validate stage it has failed there.
C28_MissingDimensionAborts ==
    caller = "run" /\ trace # << >> /\ ExtractedDimensions # DIMENSION_NAMES
        => /\ "load" \notin Range(trace)
           /\ txn_log = << >>
           /\ store = run_store0
           /\ ~result.returned
           /\ "validate" \in Range(trace)
                 => /\ pc = "idle"
                    /\ outcome = "raised"
                    /\ failed_stage = "validate"

\* C29: in every run, once its transform stage is done, the transformed
\* dimension tables (those the run validates and loads) are exactly the
\* tables derived from the sections extracted in that run.
C29_NoCarryOver ==
    caller = "run" /\ "transform" \in Range(trace)
        => /\ DictNames(transformed_dimensions) = ExtractedDimensions
           /\ \A n \in ExtractedDimensions \cap DictNames(transformed_dimensions) :
                 DictValue(transformed_dimensions, n)
                    = DimensionTransform(DictValue(raw_dimensions, n), Timestamp(clock - 1))

----------------------------------------------------------------------------
(* Missing foreign keys *)

NanToken == << "n", "a", "n" >>

\* the rows of the raw fact table that lack a foreign key
RowsMissingKey ==
    { i \in DOMAIN raw_facts.df :
        \E k \in DOMAIN FK_COLUMNS : raw_facts.df[i][SourceColumn(FK_COLUMNS[k])] = NaN }

\* C30: a run whose raw fact table has a row without a foreign key does not
\* enter the load stage and writes nothing: after its transform stage that
\* key is the text 'nan', after its validate stage it has failed there; and
\* no dimension table that has passed validation holds 'nan' as a key.
C30_MissingKeyNeverPersisted ==
    /\ validated.ok
          => \A d \in DOMAIN validated.dimensions :
                NanToken \notin ColumnValues(validated.dimensions[d].df, "key")
    /\ caller = "run" /\ trace # << >> /\ raw_facts.some /\ RowsMissingKey # { }
          => /\ "load" \notin Range(trace)
             /\ txn_log = << >>
             /\ store = run_store0
             /\ ~result.returned
             /\ "transform" \in Range(trace)
                   => \A i \in RowsMissingKey :
                         \A k \in DOMAIN FK_COLUMNS :
                            raw_facts.df[i][SourceColumn(FK_COLUMNS[k])] = NaN
                               => transformed_facts.df[i][FK_COLUMNS[k]] = NanToken
             /\ "validate" \in Range(trace)
                   => /\ pc = "idle"
                      /\ outcome = "raised"
                      /\ failed_stage = "validate"

\* a run failed in validate on the 'nan' of a fact row alone: its dimensions
\* pass and every other foreign key is a key of its dimension
C30_Witness ==
    /\ caller = "run"
    /\ failed_stage = "validate"
    /\ raw_facts.some
    /\ RowsMissingKey # { }
    /\ ValidateDimensions(transformed_dimensions)
    /\ FactSchemaBuilds(transformed_dimensions)
    /\ \A i \in DOMAIN transformed_facts.df :
          \A k \in DOMAIN FK_COLUMNS :
             LET v == transformed_facts.df[i][FK_COLUMNS[k]]
             IN  v # NanToken
                    => v \in ColumnValues(DictValue(transformed_dimensions,
                                                    FK_DIMENSION[FK_COLUMNS[k]]), "key")

====
